---- MODULE Spec2Model ----
(***************************************************************************)
(* Model of the supplier-matching and queue-migration scripts.             *)
(*                                                                         *)
(* Text is modelled as a sequence of one-character strings, so that the    *)
(* conversions of the scripts (lower, strip, split, the regular            *)
(* expressions of normalize_text) are computed character by character.     *)
(***************************************************************************)
EXTENDS Integers, Sequences, FiniteSets, TLC

VARIABLES
    pc,            \* position of the function under execution
    text,          \* normalize_text: the input string
    norm_once,     \* normalize_text(text)
    norm_twice,    \* normalize_text(normalize_text(text))
    domain,        \* is_proprietary_domain: the input string
    proprietary,   \* is_proprietary_domain(domain)
    queue_headers, \* queue sheet: queue_data[0]
    queue_rows,    \* queue sheet: queue_data[1:]
    excl_headers,  \* exclusion list sheet: its first row
    excl_rows,     \* exclusion list sheet: the rows after the first
    existing_entries,      \* process_queue_data: the triples of the exclusion list
    unique_queue_entries,  \* process_queue_data: the new triples
    rows_to_remove,        \* process_queue_data: the queue rows to delete
    matches,       \* find_matches: the match results so far
    row_idx,       \* find_matches: the sheet row of the outer loop (2 = first data row)
    excl_idx,      \* find_matches: the exclusion row of the inner loop
    examined,      \* history: the pairs <<queue row, exclusion row>> compared so far
    backend,       \* is_similar: the sequence matcher fuzzywuzzy was installed with
    sim_text1,     \* is_similar: text1
    sim_text2,     \* is_similar: text2
    sim_threshold, \* is_similar: threshold
    similar,       \* is_similar(text1, text2, threshold)
    similar_swapped,     \* is_similar(text2, text1, threshold)
    ext_email,           \* extract_domain_from_email: the input string
    ext_website,         \* extract_domain_from_website: the input string
    ext_host,            \* the host the website input was written with
    ext_email_domain,    \* extract_domain_from_email(email), or the exception raised
    ext_website_domain,  \* extract_domain_from_website(website)
    sheet_id,      \* clear_queue_rows: the sheetId found for the queue sheet
    api_fault,     \* the Sheets API call that raises in this run, if any
    excl_written,  \* process_queue_data: the values written to the exclusion list
    requests,      \* clear_queue_rows: the rows of the deleteDimension requests
    queue_sheet,   \* the rows of the queue sheet, header included
    source_data,   \* move_to_queue: the rows of the source sheet, header included
    country,       \* move_to_queue: the country the source sheet is named after
    queue_before,  \* history: the queue rows the current run of move_to_queue read
    unique_entries,  \* process_source_data: the rows appended to the queue
    seen_wineries,   \* process_source_data: the lowercased names appended so far
    runs,          \* the number of runs of move_to_queue so far
    price_data,    \* the pricing sheet, header included
    updates,       \* process_pricing_data: the <<row, column, value>> updates
    price_runs     \* the number of runs of process_sheet so far

normVars  == <<text, norm_once, norm_twice>>
domVars   == <<domain, proprietary>>
sheetVars == <<queue_headers, queue_rows, excl_headers, excl_rows>>
mergeVars == <<existing_entries, unique_queue_entries, rows_to_remove>>
matchVars == <<matches, row_idx, excl_idx, examined>>
simVars   == <<backend, sim_text1, sim_text2, sim_threshold, similar, similar_swapped>>
extVars   == <<ext_email, ext_website, ext_host, ext_email_domain, ext_website_domain>>
moveVars  == <<sheet_id, api_fault, excl_written, requests, queue_sheet>>
toQueueVars == <<source_data, country, queue_before, unique_entries, seen_wineries, runs>>
priceVars == <<price_data, updates, price_runs>>
vars      == <<pc, normVars, domVars, sheetVars, mergeVars, matchVars,
               simVars, extVars, moveVars, toQueueVars, priceVars>>

(***************************************************************************)
(* Bounds of the model.                                                    *)
(***************************************************************************)
MaxPieces    == 3   \* a normalize_text input is made of at most this many pieces
MaxDomPieces == 3   \* a domain input is made of at most this many pieces
MaxQueueRows == 2   \* the queue sheet has at most this many rows after its header
MaxExclRows  == 1   \* the exclusion list has at most this many rows after its header
MaxMatchQueueRows == 1   \* find_matches: at most this many queue rows
MaxMatchExclRows  == 2   \* find_matches: at most this many exclusion rows

(***************************************************************************)
(* Characters.                                                             *)
(***************************************************************************)
LowerLetters ==
    {"a","b","c","d","e","f","g","h","i","j","k","l","m",
     "n","o","p","q","r","s","t","u","v","w","x","y","z"}
UpperLetters ==
    {"A","B","C","D","E","F","G","H","I","J","K","L","M",
     "N","O","P","Q","R","S","T","U","V","W","X","Y","Z"}
Digits       == {"0","1","2","3","4","5","6","7","8","9"}

\* \w of the re module: letters, digits and the underscore
IsWordChar(c) == c \in LowerLetters \cup UpperLetters \cup Digits \cup {"_"}
\* \s of the re module, and the characters str.strip() removes
IsSpace(c)    == c \in {" ", "\t"}

UpperSeq == <<"A","B","C","D","E","F","G","H","I","J","K","L","M",
              "N","O","P","Q","R","S","T","U","V","W","X","Y","Z">>
LowerSeq == <<"a","b","c","d","e","f","g","h","i","j","k","l","m",
              "n","o","p","q","r","s","t","u","v","w","x","y","z">>

\* str.lower() on one character
LowerChar(c) ==
    IF c \in UpperLetters
    THEN LowerSeq[CHOOSE i \in 1..26 : UpperSeq[i] = c]
    ELSE c

\* str.lower()
Lower(s) == [i \in 1..Len(s) |-> LowerChar(s[i])]

\* str.strip(): leading and trailing whitespace removed
Strip(s) ==
    LET idx == {i \in 1..Len(s) : ~IsSpace(s[i])}
    IN  IF idx = {} THEN <<>>
        ELSE LET lo == CHOOSE i \in idx : \A j \in idx : i <= j
                 hi == CHOOSE i \in idx : \A j \in idx : i >= j
             IN  SubSeq(s, lo, hi)

(***************************************************************************)
(* normalize_text                                                          *)
(***************************************************************************)
\* the alternatives of r'\b(pty|ltd|limited|llc|inc|incorporated|corp|corporation)\b',
\* in the order the regular expression tries them
SuffixAlternatives ==
    << <<"p","t","y">>,
       <<"l","t","d">>,
       <<"l","i","m","i","t","e","d">>,
       <<"l","l","c">>,
       <<"i","n","c">>,
       <<"i","n","c","o","r","p","o","r","a","t","e","d">>,
       <<"c","o","r","p">>,
       <<"c","o","r","p","o","r","a","t","i","o","n">> >>

\* \b at the position before character k (k in 1..Len(s)+1)
WordBoundary(s, k) ==
    LET left  == k > 1 /\ IsWordChar(s[k-1])
        right == k <= Len(s) /\ IsWordChar(s[k])
    IN  left # right

\* alternative tok matches at position i, with \b on both sides
SuffixMatchesAt(s, i, tok) ==
    /\ i + Len(tok) - 1 <= Len(s)
    /\ SubSeq(s, i, i + Len(tok) - 1) = tok
    /\ WordBoundary(s, i)
    /\ WordBoundary(s, i + Len(tok))

RECURSIVE RemoveSuffixesFrom(_, _)
RemoveSuffixesFrom(s, i) ==
    IF i > Len(s) THEN <<>>
    ELSE LET alts == {a \in 1..Len(SuffixAlternatives) :
                          SuffixMatchesAt(s, i, SuffixAlternatives[a])}
         IN  IF alts # {}
             THEN LET a == CHOOSE x \in alts : \A y \in alts : x <= y
                  IN  RemoveSuffixesFrom(s, i + Len(SuffixAlternatives[a]))
             ELSE <<s[i]>> \o RemoveSuffixesFrom(s, i + 1)

\* re.sub(r'\b(pty|ltd|...)\b', '', text)
RemoveSuffixes(s) == RemoveSuffixesFrom(s, 1)

\* re.sub(r'[^\w\s]', '', text)
RemoveSpecial(s) == SelectSeq(s, LAMBDA c : IsWordChar(c) \/ IsSpace(c))

RECURSIVE CollapseSpacesFrom(_, _)
CollapseSpacesFrom(s, i) ==
    IF i > Len(s) THEN <<>>
    ELSE IF IsSpace(s[i])
         THEN (IF i > 1 /\ IsSpace(s[i-1]) THEN <<>> ELSE <<" ">>)
              \o CollapseSpacesFrom(s, i + 1)
         ELSE <<s[i]>> \o CollapseSpacesFrom(s, i + 1)

\* re.sub(r'\s+', ' ', text)
CollapseSpaces(s) == CollapseSpacesFrom(s, 1)

normalize_text(s) ==
    IF s = <<>> THEN <<>>
    ELSE Strip(CollapseSpaces(RemoveSpecial(RemoveSuffixes(Lower(s)))))

(***************************************************************************)
(* Inputs of normalize_text: concatenations of at most MaxPieces pieces.   *)
(***************************************************************************)
NormPieces ==
    { <<"l">>, <<"t","d">>, <<"L","t","d">>, <<"I","n","c">>, <<"p","t","y">>,
      <<"a">>, <<".">>, <<"-">>, <<" ">>, <<"\t">>, <<"_">> }

RECURSIVE Concats(_, _)
Concats(pieces, n) ==
    IF n = 0 THEN { <<>> }
    ELSE LET shorter == Concats(pieces, n - 1)
         IN  shorter \cup {s \o p : s \in shorter, p \in pieces}

NormInputs == Concats(NormPieces, MaxPieces)

(***************************************************************************)
(* Specification SpecNormalize: normalize_text applied once, then again to *)
(* its own result.                                                         *)
(***************************************************************************)
DomIdle   == domain = <<>> /\ proprietary = FALSE
SheetIdle == /\ queue_headers = <<>> /\ queue_rows = <<>>
             /\ excl_headers = <<>> /\ excl_rows = <<>>
MergeIdle == /\ existing_entries = {} /\ unique_queue_entries = {}
             /\ rows_to_remove = <<>>
MatchIdle == /\ matches = <<>> /\ row_idx = 0 /\ excl_idx = 0 /\ examined = {}
SimIdle   == /\ backend = "" /\ sim_text1 = <<>> /\ sim_text2 = <<>>
             /\ sim_threshold = 0 /\ similar = FALSE /\ similar_swapped = FALSE
ExtIdle   == /\ ext_email = <<>> /\ ext_website = <<>> /\ ext_host = <<>>
             /\ ext_email_domain = <<>> /\ ext_website_domain = <<>>
MoveIdle  == /\ sheet_id = 0 /\ api_fault = "" /\ excl_written = <<>>
             /\ requests = <<>> /\ queue_sheet = <<>>

ToQueueIdle == /\ source_data = <<>> /\ country = <<>> /\ queue_before = <<>>
               /\ unique_entries = <<>> /\ seen_wineries = {} /\ runs = 0
PriceIdle == price_data = <<>> /\ updates = <<>> /\ price_runs = 0

InitNormalize ==
    /\ pc = "normalize"
    /\ text \in NormInputs
    /\ norm_once = <<>>
    /\ norm_twice = <<>>
    /\ DomIdle /\ SheetIdle /\ MergeIdle /\ MatchIdle
    /\ SimIdle /\ ExtIdle /\ MoveIdle
    /\ ToQueueIdle /\ PriceIdle

Normalize ==
    /\ pc = "normalize"
    /\ norm_once' = normalize_text(text)
    /\ pc' = "normalized"
    /\ UNCHANGED <<toQueueVars, priceVars>>
    /\ UNCHANGED <<text, norm_twice, domVars, sheetVars,
                   simVars, extVars, moveVars, mergeVars, matchVars>>

NormalizeAgain ==
    /\ pc = "normalized"
    /\ norm_twice' = normalize_text(norm_once)
    /\ pc' = "normalized_twice"
    /\ UNCHANGED <<toQueueVars, priceVars>>
    /\ UNCHANGED <<text, norm_once, domVars, sheetVars,
                   simVars, extVars, moveVars, mergeVars, matchVars>>

NextNormalize == Normalize \/ NormalizeAgain

SpecNormalize == InitNormalize /\ [][NextNormalize]_vars

\* C1: normalize_text is idempotent: normalising the result of normalize_text
\* gives that result again, for every input.
C1_NormalizeIdempotent ==
    pc = "normalized_twice" => norm_twice = norm_once

\* C16: the result of normalize_text holds only lowercase letters, digits and
\* single spaces, with no space at either end and no two spaces in a row; no
\* character of the input that is neither alphanumeric nor whitespace is
\* left in it.
C16_OutputAlphanumericSingleSpaces ==
    pc = "normalized" =>
        /\ \A i \in 1..Len(norm_once) :
              norm_once[i] \in LowerLetters \cup Digits \cup {" "}
        /\ norm_once # <<>> => (norm_once[1] # " " /\ norm_once[Len(norm_once)] # " ")
        /\ \A i \in 1..(Len(norm_once) - 1) :
              ~(norm_once[i] = " " /\ norm_once[i + 1] = " ")

(***************************************************************************)
(* is_proprietary_domain                                                   *)
(***************************************************************************)
COMMON_EMAIL_PROVIDER_BASES ==
    { <<"g","m","a","i","l">>,
      <<"y","a","h","o","o">>,
      <<"h","o","t","m","a","i","l">>,
      <<"o","u","t","l","o","o","k">>,
      <<"l","i","v","e">>,
      <<"m","s","n">>,
      <<"a","o","l">>,
      <<"i","c","l","o","u","d">>,
      <<"m","e",".","c","o","m">>,
      <<"m","a","c",".","c","o","m">>,
      <<"m","a","i","l">>,
      <<"c","o","m","c","a","s","t">>,
      <<"v","e","r","i","z","o","n">>,
      <<"a","t","t">>,
      <<"p","r","o","t","o","n","m","a","i","l">>,
      <<"z","o","h","o">>,
      <<"g","m","x">>,
      <<"m","a","i","l","i","n","a","t","o","r">>,
      <<"y","a","n","d","e","x">>,
      <<"s","b","c","g","l","o","b","a","l">>,
      <<"c","o","x">>,
      <<"e","a","r","t","h","l","i","n","k">>,
      <<"r","o","c","k","e","t","m","a","i","l">>,
      <<"m","i","n","d","s","p","r","i","n","g">>,
      <<"f","a","s","t","m","a","i","l">>,
      <<"r","e","d","i","f","f","m","a","i","l">>,
      <<"b","t","i","n","t","e","r","n","e","t">>,
      <<"n","a","v","e","r">>,
      <<"q","q",".","c","o","m">>,
      <<"1","2","6",".","c","o","m">>,
      <<"1","6","3",".","c","o","m">>,
      <<"b","e","l","l","s","o","u","t","h">> }

EXACT_COMMON_DOMAINS ==
    { <<"p","m",".","m","e">>,
      <<"y","m","a","i","l",".","c","o","m">> }

\* s.split(sep)[0]: the characters before the first sep, all of s when it has none
FirstPart(s, sep) ==
    LET at == {i \in 1..Len(s) : s[i] = sep}
    IN  IF at = {} THEN s
        ELSE SubSeq(s, 1, (CHOOSE i \in at : \A j \in at : i <= j) - 1)

\* s.startswith(prefix)
StartsWith(s, prefix) ==
    Len(prefix) <= Len(s) /\ SubSeq(s, 1, Len(prefix)) = prefix

\* is_proprietary_domain without the domain.lower() of line 183
is_proprietary_domain_no_lower(d) ==
    IF d = <<>> THEN FALSE
    ELSE IF d \in EXACT_COMMON_DOMAINS THEN FALSE
    ELSE IF FirstPart(d, ".") \in COMMON_EMAIL_PROVIDER_BASES THEN FALSE
    ELSE IF \E base \in COMMON_EMAIL_PROVIDER_BASES : StartsWith(d, base \o <<".">>)
         THEN FALSE
    ELSE TRUE

is_proprietary_domain(d) ==
    IF d = <<>> THEN FALSE
    ELSE LET low == Lower(d)
         IN  IF low \in EXACT_COMMON_DOMAINS THEN FALSE
             ELSE IF FirstPart(low, ".") \in COMMON_EMAIL_PROVIDER_BASES THEN FALSE
             ELSE IF \E base \in COMMON_EMAIL_PROVIDER_BASES :
                         StartsWith(low, base \o <<".">>)
                  THEN FALSE
             ELSE TRUE

(***************************************************************************)
(* Inputs of is_proprietary_domain: concatenations of at most MaxDomPieces *)
(* pieces.                                                                 *)
(***************************************************************************)
DomPieces ==
    { <<"g","m","a","i","l">>, <<"G","m","a","i","l">>, <<"y","a","h","o","o">>,
      <<"p","m">>, <<"m","e">>, <<"y","m","a","i","l">>, <<"u","s","e","r">>,
      <<"c","h","a","t","e","a","u","-","m","a","r","g","a","u","x">>,
      <<".">>, <<".","c","o","m">>, <<".","c","o",".","u","k">>, <<".","m","e">> }

DomInputs == Concats(DomPieces, MaxDomPieces)

(***************************************************************************)
(* Specification SpecDomain: is_proprietary_domain applied to one domain.  *)
(***************************************************************************)
NormIdle == text = <<>> /\ norm_once = <<>> /\ norm_twice = <<>>

InitDomain ==
    /\ pc = "classify"
    /\ domain \in DomInputs
    /\ proprietary = FALSE
    /\ NormIdle /\ SheetIdle /\ MergeIdle /\ MatchIdle
    /\ SimIdle /\ ExtIdle /\ MoveIdle
    /\ ToQueueIdle /\ PriceIdle

Classify ==
    /\ pc = "classify"
    /\ proprietary' = is_proprietary_domain(domain)
    /\ pc' = "classified"
    /\ UNCHANGED <<toQueueVars, priceVars>>
    /\ UNCHANGED <<domain, normVars, sheetVars, simVars, extVars, moveVars, mergeVars, matchVars>>

NextDomain == Classify

SpecDomain == InitDomain /\ [][NextDomain]_vars

\* the first label of a domain extends a provider base name: the base name is
\* followed directly by further characters before the first dot
ExtendsBase(d) ==
    \E base \in COMMON_EMAIL_PROVIDER_BASES :
        /\ StartsWith(FirstPart(d, "."), base)
        /\ Len(FirstPart(d, ".")) > Len(base)

\* C6: every domain whose first label is a provider base name followed directly
\* by further characters (such as gmailuser.com) is classified as common.
C6_PrefixRuleCatchesExtendedBase ==
    (pc = "classified" /\ ExtendsBase(Lower(domain))) => ~proprietary

\* the three rules that make a domain common, stated on the lowercased domain
MatchesCommonRule(d) ==
    \/ d \in EXACT_COMMON_DOMAINS
    \/ FirstPart(d, ".") \in COMMON_EMAIL_PROVIDER_BASES
    \/ \E base \in COMMON_EMAIL_PROVIDER_BASES : StartsWith(d, base \o <<".">>)

\* C7: the empty domain, every exact common domain and every domain whose first
\* label is, case-insensitively, a provider base name are not proprietary; a
\* non-empty domain that matches no rule is proprietary.
C7_ClassifierRules ==
    pc = "classified" =>
        /\ domain = <<>> => ~proprietary
        /\ domain \in EXACT_COMMON_DOMAINS => ~proprietary
        /\ FirstPart(Lower(domain), ".") \in COMMON_EMAIL_PROVIDER_BASES => ~proprietary
        /\ (domain # <<>> /\ ~MatchesCommonRule(Lower(domain))) => proprietary

\* a domain with a capitalised provider label and a country suffix was classified
\* as common
C7_Witness ==
    /\ pc = "classified"
    /\ domain = <<"G","m","a","i","l",".","c","o",".","u","k">>
    /\ ~proprietary

(***************************************************************************)
(* Sheets: a sheet is its header row and the rows after it; a row is the   *)
(* list of its cells, and may be shorter than the header row.              *)
(***************************************************************************)
\* get_column_indices finds no column: None, None, None
NoColumns == <<-1, -1, -1>>

\* headers.index(name), 0-based; -1 stands for the ValueError
HeaderIndex(headers, name) ==
    LET at == {i \in 1..Len(headers) : headers[i] = name}
    IN  IF at = {} THEN -1
        ELSE (CHOOSE i \in at : \A j \in at : i <= j) - 1

\* get_column_indices of move_from_queue_to_exclusion_list.py: the columns of
\* name, email and website, the same names for both sheet types
get_column_indices(headers) ==
    LET cols == << HeaderIndex(headers, "Winery or Supplier Name"),
                   HeaderIndex(headers, "Email"),
                   HeaderIndex(headers, "Website") >>
    IN  IF -1 \in {cols[1], cols[2], cols[3]} THEN NoColumns ELSE cols

MaxCol(cols) == CHOOSE m \in {cols[1], cols[2], cols[3]} :
                    \A c \in {cols[1], cols[2], cols[3]} : m >= c

\* row[col].strip() if col < len(row) else ""
Cell(row, col) == IF col < Len(row) THEN Strip(row[col + 1]) ELSE <<>>

\* entry = (name, email, website) of a row
EntryOf(row, cols) == << Cell(row, cols[1]), Cell(row, cols[2]), Cell(row, cols[3]) >>

EmptyEntry == << <<>>, <<>>, <<>> >>

(***************************************************************************)
(* move_from_queue_to_exclusion_list.py: get_existing_entries and the loop *)
(* of process_queue_data that collects the new entries.                    *)
(***************************************************************************)
get_existing_entries(headers, rows) ==
    LET cols == get_column_indices(headers)
    IN  IF cols = NoColumns THEN {}
        ELSE { EntryOf(rows[i], cols) :
                 i \in {k \in 1..Len(rows) :
                          /\ Len(rows[k]) > MaxCol(cols)
                          /\ EntryOf(rows[k], cols) # EmptyEntry} }

\* the test of line 186 inverted
IsNewEntry_inverted(entry, existing) == entry \in existing

\* the test of line 186 made on lowercased triples
IsNewEntry_ignore_case(entry, existing) ==
    LET low(e) == << Lower(e[1]), Lower(e[2]), Lower(e[3]) >>
    IN  low(entry) \notin {low(x) : x \in existing}

\* entry not in existing_entries
IsNewEntry(entry, existing) == entry \notin existing

\* the loop body with a row marked only when its entry was not collected
\* earlier in the same batch
CollectRow_first_seen_only(acc, row, row_no, cols, existing) ==
    IF Len(row) > MaxCol(cols)
    THEN LET entry == EntryOf(row, cols)
         IN  IF entry = EmptyEntry THEN acc
             ELSE IF IsNewEntry(entry, existing) /\ entry \notin acc.unique
                  THEN [unique |-> acc.unique \cup {entry},
                        remove |-> Append(acc.remove, row_no)]
                  ELSE acc
    ELSE acc

\* one iteration of the loop of lines 175-188
CollectRow(acc, row, row_no, cols, existing) ==
    IF Len(row) > MaxCol(cols)
    THEN LET entry == EntryOf(row, cols)
         IN  IF entry = EmptyEntry THEN acc
             ELSE IF IsNewEntry(entry, existing)
                  THEN [unique |-> acc.unique \cup {entry},
                        remove |-> Append(acc.remove, row_no)]
                  ELSE acc
    ELSE acc

\* the loop of lines 175-188: row i of queue_data[1:] has row_idx i + 1
RECURSIVE CollectFrom(_, _, _, _, _)
CollectFrom(rows, i, cols, existing, acc) ==
    IF i > Len(rows) THEN acc
    ELSE CollectFrom(rows, i + 1, cols, existing,
                     CollectRow(acc, rows[i], i + 1, cols, existing))

\* unique_queue_entries and rows_to_remove of process_queue_data, given the
\* existing entries; nothing when a queue column is missing (line 166)
CollectNewEntries(headers, rows, existing) ==
    LET cols == get_column_indices(headers)
    IN  IF cols = NoColumns THEN [unique |-> {}, remove |-> <<>>]
        ELSE CollectFrom(rows, 1, cols, existing, [unique |-> {}, remove |-> <<>>])

(***************************************************************************)
(* Inputs of the merge: sheets of sample rows.                             *)
(***************************************************************************)
StandardHeaders == <<"Winery or Supplier Name", "Email", "Website">>
SwappedHeaders  == <<"Email", "Winery or Supplier Name", "Website">>
ShortHeaders    == <<"Winery or Supplier Name", "Email">>

QueueSampleRows ==
    { << <<"a">>, <<"e">>, <<"w">> >>,
      << <<"A">>, <<"e">>, <<"w">> >>,
      << <<" ","a"," ">>, <<"e">>, <<"w">> >>,
      << <<"a">>, <<>>, <<"w">> >>,
      << <<"e">>, <<"a">>, <<"w">> >>,
      << <<>>, <<" ">>, <<>> >>,
      << <<"a">>, <<"e">> >>,
      << <<"b">>, <<"e">>, <<"w">> >> }

ExclSampleRows ==
    { << <<"a">>, <<"e">>, <<"w">> >>,
      << <<"A">>, <<"e">>, <<"w">>, <<"x">> >>,
      << <<"a"," ">>, <<>>, <<"w">> >>,
      << <<"b">>, <<"e">> >>,
      << <<>>, <<>>, <<>> >> }

\* the sequences of at most n elements of S
RECURSIVE SeqsUpTo(_, _)
SeqsUpTo(S, n) ==
    IF n = 0 THEN { <<>> }
    ELSE LET shorter == SeqsUpTo(S, n - 1)
         IN  shorter \cup {Append(q, x) : q \in shorter, x \in S}

(***************************************************************************)
(* Specification SpecMerge: the merge step of process_queue_data on a      *)
(* queue batch, then once more on the same batch with the new entries of   *)
(* the first run added to the existing entries.                            *)
(***************************************************************************)
InitMerge ==
    /\ pc = "process"
    /\ queue_headers \in {StandardHeaders, SwappedHeaders, ShortHeaders}
    /\ queue_rows \in SeqsUpTo(QueueSampleRows, MaxQueueRows)
    /\ excl_headers \in {StandardHeaders, ShortHeaders}
    /\ excl_rows \in SeqsUpTo(ExclSampleRows, MaxExclRows)
    /\ MergeIdle
    /\ NormIdle /\ DomIdle /\ MatchIdle
    /\ SimIdle /\ ExtIdle /\ MoveIdle
    /\ ToQueueIdle /\ PriceIdle

ProcessQueue ==
    /\ pc = "process"
    /\ LET existing == get_existing_entries(excl_headers, excl_rows)
           got      == CollectNewEntries(queue_headers, queue_rows, existing)
       IN  /\ existing_entries' = existing
           /\ unique_queue_entries' = got.unique
           /\ rows_to_remove' = got.remove
    /\ pc' = "processed"
    /\ UNCHANGED <<toQueueVars, priceVars>>
    /\ UNCHANGED <<normVars, domVars, sheetVars, simVars, extVars, moveVars, matchVars>>

ProcessAgain ==
    /\ pc = "processed"
    /\ LET existing == existing_entries \cup unique_queue_entries
           got      == CollectNewEntries(queue_headers, queue_rows, existing)
       IN  /\ existing_entries' = existing
           /\ unique_queue_entries' = got.unique
           /\ rows_to_remove' = got.remove
    /\ pc' = "processed_again"
    /\ UNCHANGED <<toQueueVars, priceVars>>
    /\ UNCHANGED <<normVars, domVars, sheetVars, simVars, extVars, moveVars, matchVars>>

NextMerge == ProcessQueue \/ ProcessAgain

SpecMerge == InitMerge /\ [][NextMerge]_vars

\* the queue rows the loop reads: long enough for every column, not all empty
QueueCols == get_column_indices(queue_headers)
ReadRows ==
    IF QueueCols = NoColumns THEN {}
    ELSE {i \in 1..Len(queue_rows) :
            /\ Len(queue_rows[i]) > MaxCol(QueueCols)
            /\ EntryOf(queue_rows[i], QueueCols) # EmptyEntry}
QueueEntry(i) == EntryOf(queue_rows[i], QueueCols)
Marked(i) == \E k \in 1..Len(rows_to_remove) : rows_to_remove[k] = i + 1

LowerEntry(e) == << Lower(e[1]), Lower(e[2]), Lower(e[3]) >>

\* C4: a queue row whose trimmed triple is in the existing set is neither a new
\* entry nor marked for removal; a row whose triple differs from the existing
\* ones, if only in letter case, is a new entry and is marked.
C4_ExistingEntryUntouched ==
    pc = "processed" =>
        \A i \in ReadRows :
            /\ QueueEntry(i) \in existing_entries
                 => (QueueEntry(i) \notin unique_queue_entries /\ ~Marked(i))
            /\ QueueEntry(i) \notin existing_entries
                 => (QueueEntry(i) \in unique_queue_entries /\ Marked(i))

\* one row is in the existing set and stays; another differs from it only in
\* letter case and is migrated
C4_Witness ==
    /\ pc = "processed"
    /\ \E i, j \in ReadRows :
          /\ QueueEntry(i) \in existing_entries
          /\ ~Marked(i)
          /\ QueueEntry(j) # QueueEntry(i)
          /\ LowerEntry(QueueEntry(j)) = LowerEntry(QueueEntry(i))
          /\ QueueEntry(j) \in unique_queue_entries
          /\ Marked(j)

\* C5: the second run, on the same batch with the first run's new entries in
\* the existing set, gives no new entry and marks no row.
C5_SecondRunEmpty ==
    pc = "processed_again" =>
        (unique_queue_entries = {} /\ rows_to_remove = <<>>)

\* the second run ended after a first run that had migrated something
C5_Witness ==
    /\ pc = "processed_again"
    /\ existing_entries # get_existing_entries(excl_headers, excl_rows)
    /\ unique_queue_entries = {}

(***************************************************************************)
(* flag_suppliers_in_exclusion_list.py: domain extraction                  *)
(***************************************************************************)
\* s.split(sep)[1]: the characters between the first and the second sep;
\* <<"IndexError">> when s has no sep
SecondPart(s, sep) ==
    LET at == {i \in 1..Len(s) : s[i] = sep}
    IN  IF at = {} THEN <<"IndexError">>
        ELSE LET first == CHOOSE i \in at : \A j \in at : i <= j
                 rest  == SubSeq(s, first + 1, Len(s))
             IN  FirstPart(rest, sep)

\* extract_domain_from_email without the except clause of lines 155-156: the
\* IndexError leaves the function
extract_domain_from_email_uncaught(email) ==
    IF email = <<>> THEN <<>>
    ELSE IF SecondPart(email, "@") = <<"IndexError">> THEN <<"IndexError">>
    ELSE Lower(SecondPart(email, "@"))

extract_domain_from_email(email) ==
    IF email = <<>> THEN <<>>
    ELSE IF SecondPart(email, "@") = <<"IndexError">> THEN <<>>
    ELSE Lower(SecondPart(email, "@"))

\* re.sub('^' + prefix, '', s) for a literal prefix
DropPrefix(s, prefix) ==
    IF StartsWith(s, prefix) THEN SubSeq(s, Len(prefix) + 1, Len(s)) ELSE s

\* extract_domain_from_website without the split(':') of line 173
extract_domain_from_website_keep_port(website) ==
    IF website = <<>> THEN <<>>
    ELSE LET low    == Lower(website)
             noprot == IF StartsWith(low, <<"h","t","t","p","s",":","/","/">>)
                       THEN DropPrefix(low, <<"h","t","t","p","s",":","/","/">>)
                       ELSE DropPrefix(low, <<"h","t","t","p",":","/","/">>)
             nowww  == DropPrefix(noprot, <<"w","w","w",".">>)
         IN  Strip(FirstPart(nowww, "/"))

extract_domain_from_website(website) ==
    IF website = <<>> THEN <<>>
    ELSE LET low    == Lower(website)
             \* re.sub(r'^https?://', '', ...)
             noprot == IF StartsWith(low, <<"h","t","t","p","s",":","/","/">>)
                       THEN DropPrefix(low, <<"h","t","t","p","s",":","/","/">>)
                       ELSE DropPrefix(low, <<"h","t","t","p",":","/","/">>)
             \* re.sub(r'^www\.', '', ...)
             nowww  == DropPrefix(noprot, <<"w","w","w",".">>)
         IN  Strip(FirstPart(FirstPart(nowww, "/"), ":"))

(***************************************************************************)
(* Specification SpecExtract: the two extraction functions applied to an   *)
(* email and to a website written as scheme, www., host, port and path.    *)
(***************************************************************************)
EmailInputs ==
    { <<>>, <<" ">>, <<"@">>, <<"a","@">>,
      <<"n","o","t","-","a","n","-","e","m","a","i","l">>,
      <<"a","@","b",".","c","o","m">>,
      <<"A","@","B",".","C","o","m">>,
      <<"a","@","b","@","c">> }

Schemes ==
    { <<>>, <<"h","t","t","p",":","/","/">>, <<"h","t","t","p","s",":","/","/">>,
      <<"H","T","T","P",":","/","/">>, <<"h","T","T","p","s",":","/","/">> }
WwwPrefixes == { <<>>, <<"w","w","w",".">>, <<"W","W","W",".">> }
\* hosts: none starts with www.
Hosts ==
    { <<"x",".","c","o","m">>, <<"A","c","m","e","-","W",".","c","o","m">>,
      <<"w","w","w","2",".","x",".","o","r","g">>, <<"h","t","t","p",".","i","o">> }
\* texts that are no host
NoHosts == { <<>>, <<" ">>, <<"n","o","t"," ","a"," ","u","r","l">> }
Ports == { <<>>, <<":","8","0","8","0">> }
Paths == { <<>>, <<"/">>, <<"/","a","/","b",":","c">>,
           <<"/","p","?","u","=","h","t","t","p",":","/","/","y">> }

InitExtract ==
    /\ pc = "extract"
    /\ ext_email \in EmailInputs
    /\ ext_host \in Hosts \cup NoHosts
    /\ \E scheme \in Schemes, www \in WwwPrefixes, port \in Ports, path \in Paths :
          ext_website = scheme \o www \o ext_host \o port \o path
    /\ ext_email_domain = <<>>
    /\ ext_website_domain = <<>>
    /\ NormIdle /\ DomIdle /\ SheetIdle /\ MergeIdle /\ MatchIdle
    /\ SimIdle /\ MoveIdle
    /\ ToQueueIdle /\ PriceIdle

Extract ==
    /\ pc = "extract"
    /\ ext_email_domain' = extract_domain_from_email(ext_email)
    /\ ext_website_domain' = extract_domain_from_website(ext_website)
    /\ pc' = "extracted"
    /\ UNCHANGED <<ext_email, ext_website, ext_host>>
    /\ UNCHANGED <<toQueueVars, priceVars>>
    /\ UNCHANGED <<normVars, domVars, sheetVars, mergeVars, matchVars, simVars, moveVars>>

NextExtract == Extract

SpecExtract == InitExtract /\ [][NextExtract]_vars

\* the characters of the texts of the model
TextChars ==
    LowerLetters \cup UpperLetters \cup Digits
    \cup {" ", "\t", ".", ",", "-", "_", "@", ":", "/", "?", "="}

IsText(v) == \A i \in 1..Len(v) : v[i] \in TextChars

HasChar(v, c) == \E i \in 1..Len(v) : v[i] = c

\* C17: both extraction functions return a string for every string, no
\* exception leaves them; an email without '@' and the empty website give
\* the empty string.
C17_ExtractionTotal ==
    pc = "extracted" =>
        /\ IsText(ext_email_domain)
        /\ IsText(ext_website_domain)
        /\ ~HasChar(ext_email, "@") => ext_email_domain = <<>>
        /\ ext_website = <<>> => ext_website_domain = <<>>

\* an email without '@' and the empty website were given and both results
\* are the empty string
C17_Witness ==
    /\ pc = "extracted"
    /\ ext_email = <<"n","o","t","-","a","n","-","e","m","a","i","l">>
    /\ ext_website = <<>>
    /\ ext_email_domain = <<>>
    /\ ext_website_domain = <<>>

\* C18: for a website written as an optional scheme in any letter case, an
\* optional www., a host, an optional port and an optional path, the result
\* of extract_domain_from_website is the lowercased host, with no '/', no ':'
\* and no scheme.
C18_WebsiteHostOnly ==
    (pc = "extracted" /\ ext_host \in Hosts) =>
        /\ ext_website_domain = Lower(ext_host)
        /\ ~HasChar(ext_website_domain, "/")
        /\ ~HasChar(ext_website_domain, ":")
        /\ ~StartsWith(ext_website_domain, <<"h","t","t","p",":">>)
        /\ ~StartsWith(ext_website_domain, <<"h","t","t","p","s",":">>)

\* a website with a mixed-case scheme, WWW., a port and a path gave its
\* lowercased host
C18_Witness ==
    /\ pc = "extracted"
    /\ ext_website = <<"h","T","T","p","s",":","/","/">> \o <<"W","W","W",".">>
                     \o <<"A","c","m","e","-","W",".","c","o","m">>
                     \o <<":","8","0","8","0">> \o <<"/","a","/","b",":","c">>
    /\ ext_website_domain = <<"a","c","m","e","-","w",".","c","o","m">>

(***************************************************************************)
(* is_similar and fuzz.ratio.  fuzz.ratio(s1, s2) of fuzzywuzzy is 100 for *)
(* equal strings, 0 when one of them is empty, and otherwise               *)
(* int(round(100 * 2 * M / T)), T the sum of the lengths and M the number  *)
(* of matching characters: with the Levenshtein matcher that number is the *)
(* length of a longest common subsequence.                                 *)
(***************************************************************************)
NAME_SIMILARITY_THRESHOLD    == 80
EMAIL_SIMILARITY_THRESHOLD   == 90
WEBSITE_SIMILARITY_THRESHOLD == 90
DOMAIN_SIMILARITY_THRESHOLD  == 100

Max(x, y) == IF x >= y THEN x ELSE y

\* one row of the longest-common-subsequence table: cur[k] is the value of
\* column k - 1.  (The set of one element makes TLC compute the row once.)
RECURSIVE LcsRow(_, _, _, _)
LcsRow(prev, c, b, cur) ==
    IF Len(cur) = Len(b) + 1 THEN cur
    ELSE LET j == Len(cur)
         IN  CHOOSE row \in
                 { LcsRow(prev, c, b, longer) :
                     longer \in { Append(cur, IF c = b[j] THEN prev[j] + 1
                                              ELSE Max(prev[j + 1], cur[j])) } } : TRUE

RECURSIVE LcsFrom(_, _, _, _)
LcsFrom(a, b, i, prev) ==
    IF i > Len(a) THEN prev[Len(b) + 1]
    ELSE CHOOSE n \in
             { LcsFrom(a, b, i + 1, row) :
                 row \in { LcsRow(prev, a[i], b, <<0>>) } } : TRUE

LcsLength(a, b) == LcsFrom(a, b, 1, [k \in 1..(Len(b) + 1) |-> 0])

\* int(round(num / den)) of Python 3: halves go to the even neighbour
RoundHalfEven(num, den) ==
    LET q == num \div den
        r == num % den
    IN  IF 2 * r > den THEN q + 1
        ELSE IF 2 * r < den THEN q
        ELSE IF q % 2 = 0 THEN q ELSE q + 1

fuzz_ratio(s1, s2) ==
    IF s1 = s2 THEN 100
    ELSE IF Len(s1) = 0 \/ Len(s2) = 0 THEN 0
    ELSE RoundHalfEven(200 * LcsLength(s1, s2), Len(s1) + Len(s2))

\* is_similar without the test of lines 208-209
is_similar_no_empty_check(text1, text2, threshold) ==
    fuzz_ratio(normalize_text(text1), normalize_text(text2)) >= threshold

is_similar(text1, text2, threshold) ==
    IF text1 = <<>> \/ text2 = <<>> THEN FALSE
    ELSE fuzz_ratio(normalize_text(text1), normalize_text(text2)) >= threshold

(***************************************************************************)
(* fuzz.ratio when fuzzywuzzy is installed without python-Levenshtein: the *)
(* matcher is difflib.SequenceMatcher(None, s1, s2), whose ratio() is      *)
(* 2 * M / T with M the total size of the matching blocks: the longest     *)
(* common block (the earliest in s1, then the earliest in s2, among the    *)
(* longest), then the same to its left and to its right.                   *)
(***************************************************************************)
\* the block of k characters after position i of a is the one after position
\* j of b
SameBlock(a, i, b, j, k) == \A t \in 1..k : a[i + t] = b[j + t]

\* find_longest_match(alo, ahi, blo, bhi): <<i, j, k>>, k = 0 when no
\* character matches
find_longest_match(a, alo, ahi, b, blo, bhi) ==
    LET starts(k) == {ij \in (alo..(ahi - k)) \X (blo..(bhi - k)) :
                         SameBlock(a, ij[1], b, ij[2], k)}
        sizes == {k \in 1..(ahi - alo) : starts(k) # {}}
    IN  IF sizes = {} THEN <<alo, blo, 0>>
        ELSE LET k  == CHOOSE x \in sizes : \A y \in sizes : x >= y
                 at == starts(k)
                 i  == CHOOSE x \in {ij[1] : ij \in at} :
                           \A y \in {ij[1] : ij \in at} : x <= y
                 j  == CHOOSE x \in {ij[2] : ij \in {z \in at : z[1] = i}} :
                           \A y \in {ij[2] : ij \in {z \in at : z[1] = i}} : x <= y
             IN  <<i, j, k>>

\* the total size of get_matching_blocks() on a[alo:ahi] and b[blo:bhi]
RECURSIVE MatchingChars(_, _, _, _, _, _)
MatchingChars(a, alo, ahi, b, blo, bhi) ==
    IF alo >= ahi \/ blo >= bhi THEN 0
    ELSE CHOOSE n \in
             { IF m[3] = 0 THEN 0
               ELSE m[3] + MatchingChars(a, alo, m[1], b, blo, m[2])
                         + MatchingChars(a, m[1] + m[3], ahi, b, m[2] + m[3], bhi) :
                 m \in { find_longest_match(a, alo, ahi, b, blo, bhi) } } : TRUE

fuzz_ratio_difflib(s1, s2) ==
    IF s1 = s2 THEN 100
    ELSE IF Len(s1) = 0 \/ Len(s2) = 0 THEN 0
    ELSE RoundHalfEven(200 * MatchingChars(s1, 0, Len(s1), s2, 0, Len(s2)),
                       Len(s1) + Len(s2))

\* is_similar on an installation whose fuzz.ratio uses difflib
is_similar_difflib(text1, text2, threshold) ==
    IF text1 = <<>> \/ text2 = <<>> THEN FALSE
    ELSE fuzz_ratio_difflib(normalize_text(text1), normalize_text(text2)) >= threshold

(***************************************************************************)
(* Specification SpecSimilar: is_similar applied to two texts, in both     *)
(* orders.  Which matcher fuzz.ratio uses is decided when fuzzywuzzy is    *)
(* installed, so every run is made with one of the two.                    *)
(***************************************************************************)
MaxSimPieces == 2   \* a text is made of at most this many pieces

SimPieces ==
    { <<"a","a","a","b","a">>, <<"a","b","a","a","b">>, <<"L","t","d",".">>,
      <<"I","n","c">> }

SimInputs == Concats(SimPieces, MaxSimPieces)

Thresholds == {0, NAME_SIMILARITY_THRESHOLD, DOMAIN_SIMILARITY_THRESHOLD}

InitSimilar ==
    /\ pc = "is_similar"
    /\ backend \in {"Levenshtein", "difflib"}
    /\ sim_text1 \in SimInputs
    /\ sim_text2 \in SimInputs
    /\ sim_threshold \in Thresholds
    /\ similar = FALSE
    /\ similar_swapped = FALSE
    /\ NormIdle /\ DomIdle /\ SheetIdle /\ MergeIdle /\ MatchIdle
    /\ ExtIdle /\ MoveIdle
    /\ ToQueueIdle /\ PriceIdle

Compare ==
    /\ pc = "is_similar"
    /\ similar' = IF backend = "difflib"
                  THEN is_similar_difflib(sim_text1, sim_text2, sim_threshold)
                  ELSE is_similar(sim_text1, sim_text2, sim_threshold)
    /\ similar_swapped' = IF backend = "difflib"
                          THEN is_similar_difflib(sim_text2, sim_text1, sim_threshold)
                          ELSE is_similar(sim_text2, sim_text1, sim_threshold)
    /\ pc' = "compared"
    /\ UNCHANGED <<backend, sim_text1, sim_text2, sim_threshold>>
    /\ UNCHANGED <<toQueueVars, priceVars>>
    /\ UNCHANGED <<normVars, domVars, sheetVars, mergeVars, matchVars, extVars, moveVars>>

NextSimilar == Compare

SpecSimilar == InitSimilar /\ [][NextSimilar]_vars

\* C14: is_similar is False, at every threshold, when one of the two texts is
\* the empty string.
C14_EmptyTextNeverSimilar ==
    pc = "compared" =>
        /\ sim_text1 = <<>> => (~similar /\ ~similar_swapped)
        /\ sim_text2 = <<>> => (~similar /\ ~similar_swapped)

\* the empty string was compared at threshold 0 with a text that normalises
\* to the empty string, and found not similar
C14_Witness ==
    /\ pc = "compared"
    /\ backend = "Levenshtein"
    /\ sim_text1 = <<>>
    /\ sim_text2 = <<"L","t","d",".">>
    /\ sim_threshold = 0
    /\ ~similar
    /\ ~similar_swapped

\* C15: is_similar gives the same answer for the two orders of its texts, at
\* every threshold.
C15_SimilarSymmetric ==
    pc = "compared" => similar = similar_swapped

(***************************************************************************)
(* flag_suppliers_in_exclusion_list.py: find_matches                       *)
(***************************************************************************)
\* get_column_indices of flag_suppliers_in_exclusion_list.py: for the queue
\* it returns (name, website, email), for the exclusion list (name, email,
\* website); (None, None, None) is <<-1, -1, -1>>
flag_get_column_indices(headers, sheet_type) ==
    LET name_col    == HeaderIndex(headers, "Winery or Supplier Name")
        email_col   == HeaderIndex(headers, "Email")
        website_col == HeaderIndex(headers, "Website")
    IN  IF -1 \in {name_col, email_col, website_col} THEN <<-1, -1, -1>>
        ELSE IF sheet_type = "queue" THEN <<name_col, website_col, email_col>>
        ELSE <<name_col, email_col, website_col>>

\* row[col].strip() if col < len(row) and col is not None else ""
FieldOf(row, col) == IF col < Len(row) THEN Strip(row[col + 1]) ELSE <<>>

\* the fields of a row and the domains extracted from them (lines 238-244 for
\* the queue, 255-261 for the exclusion list)
RowFields(row, name_col, email_col, website_col) ==
    [name           |-> FieldOf(row, name_col),
     email          |-> FieldOf(row, email_col),
     website        |-> FieldOf(row, website_col),
     email_domain   |-> extract_domain_from_email(FieldOf(row, email_col)),
     website_domain |-> extract_domain_from_website(FieldOf(row, website_col))]

(***************************************************************************)
(* Values of Python expressions: `a and b and c` is the first falsy        *)
(* operand, so a flag is True, False or the empty string.                  *)
(***************************************************************************)
PyBool(b) == IF b THEN "True" ELSE "False"
PyAnd(s1, s2, b) ==
    IF s1 = <<>> THEN "''" ELSE IF s2 = <<>> THEN "''" ELSE PyBool(b)
Truthy(v) == v = "True"

\* a domain predicate without the is_proprietary_domain guard
DomainMatch_unguarded(d1, d2) ==
    PyAnd(d1, d2, is_similar(d1, d2, DOMAIN_SIMILARITY_THRESHOLD))

\* a domain predicate (lines 269-290): False unless both domains are
\* proprietary
DomainMatch(d1, d2) ==
    IF is_proprietary_domain(d1) /\ is_proprietary_domain(d2)
    THEN PyAnd(d1, d2, is_similar(d1, d2, DOMAIN_SIMILARITY_THRESHOLD))
    ELSE "False"

\* ComparePair with cross_domain1 computed from the email domain of the
\* exclusion row instead of its website domain
ComparePair_cross1_email(q, e) ==
    [name           |-> PyBool(is_similar(q.name, e.name, NAME_SIMILARITY_THRESHOLD)),
     email          |-> PyAnd(q.email, e.email,
                              is_similar(q.email, e.email, EMAIL_SIMILARITY_THRESHOLD)),
     website        |-> PyAnd(q.website, e.website,
                              is_similar(q.website, e.website,
                                         WEBSITE_SIMILARITY_THRESHOLD)),
     email_domain   |-> DomainMatch(q.email_domain, e.email_domain),
     website_domain |-> DomainMatch(q.website_domain, e.website_domain),
     cross_domain1  |-> DomainMatch(q.email_domain, e.email_domain),
     cross_domain2  |-> DomainMatch(q.website_domain, e.email_domain)]

\* the predicates of lines 264-290 for a queue row q and an exclusion row e
ComparePair(q, e) ==
    [name           |-> PyBool(is_similar(q.name, e.name, NAME_SIMILARITY_THRESHOLD)),
     email          |-> PyAnd(q.email, e.email,
                              is_similar(q.email, e.email, EMAIL_SIMILARITY_THRESHOLD)),
     website        |-> PyAnd(q.website, e.website,
                              is_similar(q.website, e.website,
                                         WEBSITE_SIMILARITY_THRESHOLD)),
     email_domain   |-> DomainMatch(q.email_domain, e.email_domain),
     website_domain |-> DomainMatch(q.website_domain, e.website_domain),
     cross_domain1  |-> DomainMatch(q.email_domain, e.website_domain),
     cross_domain2  |-> DomainMatch(q.website_domain, e.email_domain)]

\* the condition of lines 292-294
AnyPredicate(flags) ==
    \E f \in {flags} :
        \/ Truthy(f.name) \/ Truthy(f.email) \/ Truthy(f.website)
        \/ Truthy(f.email_domain) \/ Truthy(f.website_domain)
        \/ Truthy(f.cross_domain1) \/ Truthy(f.cross_domain2)

QueueMatchCols == flag_get_column_indices(queue_headers, "queue")
ExclMatchCols  == flag_get_column_indices(excl_headers, "exclusion")

\* the queue row at sheet row r and the exclusion row j, as find_matches reads them
QueueFields(r) ==
    RowFields(queue_rows[r - 1], QueueMatchCols[1], QueueMatchCols[3], QueueMatchCols[2])
ExclFields(j) ==
    RowFields(excl_rows[j], ExclMatchCols[1], ExclMatchCols[2], ExclMatchCols[3])

(***************************************************************************)
(* Specification SpecMatch: find_matches, one action per loop step.        *)
(***************************************************************************)
MatchQueueSampleRows ==
    { << <<"A","c","m","e"," ","W","i","n","e","s">>, <<"s","a","l","e","s","@","a","c","m","e","-","w",".","c","o","m">>, <<>> >>,
      << <<"Z","e","t","a">>, <<"b","o","b","@","g","m","a","i","l",".","c","o","m">>, <<>> >>,
      << <<" ">>, <<" ","s","a","l","e","s","@","a","c","m","e","-","w",".","c","o","m">>, <<"a","c","m","e","-","w",".","c","o","m">> >>,
      << <<"B","e","t","a"," ","P","t","y"," ","L","t","d">>, <<>>, <<"h","t","t","p","s",":","/","/","w","w","w",".","A","c","m","e","-","W",".","c","o","m","/","s","h","o","p">> >>,
      << <<"Z","e","t","a">>, <<"x","@","a","c","m","e","w",".","c","o","m">>, <<"h","t","t","p",":","/","/","z","e","t","a",".","o","r","g",":","8","0">> >>,
      << >> }

MatchExclSampleRows ==
    { << <<"D","i","f","f","e","r","e","n","t"," ","C","o">>, <<>>, <<"a","c","m","e","-","w",".","c","o","m">> >>,
      << <<"A","c","m","e"," ","W","i","n","e">>, <<"i","n","f","o","@","a","c","m","e","-","w",".","c","o","m">>, <<>> >>,
      << <<"O","t","h","e","r">>, <<"a","m","y","@","g","m","a","i","l",".","c","o","m">>, <<>> >>,
      << <<>>, <<"s","a","l","e","s","@","a","c","m","e","-","w",".","c","o","m">>, <<>> >>,
      << >> }

InitMatch ==
    /\ pc = "find_matches"
    /\ queue_headers \in {StandardHeaders, ShortHeaders}
    /\ queue_rows \in SeqsUpTo(MatchQueueSampleRows, MaxMatchQueueRows)
    /\ excl_headers \in {StandardHeaders, ShortHeaders}
    /\ excl_rows \in SeqsUpTo(MatchExclSampleRows, MaxMatchExclRows)
    /\ matches = <<>>
    /\ row_idx = 2
    /\ excl_idx = 1
    /\ examined = {}
    /\ NormIdle /\ DomIdle /\ MergeIdle
    /\ SimIdle /\ ExtIdle /\ MoveIdle
    /\ ToQueueIdle /\ PriceIdle

\* lines 221-231: the columns are looked up; no name column, no matches
StartMatch ==
    /\ pc = "find_matches"
    /\ pc' = IF -1 \in {QueueMatchCols[1], ExclMatchCols[1]}
             THEN "returned" ELSE "queue_row"
    /\ UNCHANGED <<toQueueVars, priceVars>>
    /\ UNCHANGED <<normVars, domVars, sheetVars, simVars, extVars, moveVars, mergeVars, matchVars>>

\* NextQueueRow without the test of lines 246-248
NextQueueRow_no_name_check ==
    /\ pc = "queue_row"
    /\ IF row_idx - 1 > Len(queue_rows)
       THEN pc' = "returned" /\ UNCHANGED <<row_idx, excl_idx>>
       ELSE IF Len(queue_rows[row_idx - 1]) <= QueueMatchCols[1]
            THEN pc' = "queue_row" /\ row_idx' = row_idx + 1 /\ UNCHANGED excl_idx
            ELSE pc' = "excl_row" /\ excl_idx' = 1 /\ UNCHANGED row_idx
    /\ UNCHANGED <<toQueueVars, priceVars>>
    /\ UNCHANGED <<normVars, domVars, sheetVars,
                   simVars, extVars, moveVars, mergeVars, matches, examined>>

\* lines 234-248: the next queue row; a row without a name is skipped
NextQueueRow ==
    /\ pc = "queue_row"
    /\ IF row_idx - 1 > Len(queue_rows)
       THEN pc' = "returned" /\ UNCHANGED <<row_idx, excl_idx>>
       ELSE IF \/ Len(queue_rows[row_idx - 1]) <= QueueMatchCols[1]
               \/ QueueFields(row_idx).name = <<>>
            THEN pc' = "queue_row" /\ row_idx' = row_idx + 1 /\ UNCHANGED excl_idx
            ELSE pc' = "excl_row" /\ excl_idx' = 1 /\ UNCHANGED row_idx
    /\ UNCHANGED <<toQueueVars, priceVars>>
    /\ UNCHANGED <<normVars, domVars, sheetVars,
                   simVars, extVars, moveVars, mergeVars, matches, examined>>

\* ExaminePair without the break of line 321
ExaminePair_no_break ==
    /\ pc = "excl_row"
    /\ excl_idx <= Len(excl_rows)
    /\ IF Len(excl_rows[excl_idx]) <= ExclMatchCols[1]
       THEN UNCHANGED <<matches, examined>>
       ELSE LET qf == QueueFields(row_idx)
                ef == ExclFields(excl_idx)
                f  == ComparePair(qf, ef)
            IN  /\ examined' = examined \cup {<<row_idx, excl_idx>>}
                /\ matches' = IF AnyPredicate(f)
                              THEN Append(matches, [row |-> row_idx, matches |-> f,
                                                    queue_data |-> qf,
                                                    exclusion_data |-> ef])
                              ELSE matches
    /\ excl_idx' = excl_idx + 1
    /\ UNCHANGED <<pc, row_idx>>
    /\ UNCHANGED <<toQueueVars, priceVars>>
    /\ UNCHANGED <<normVars, domVars, sheetVars, simVars, extVars, moveVars, mergeVars>>

\* lines 251-321: one exclusion row is compared with the queue row; on a
\* match the result is appended and the inner loop is left
ExaminePair ==
    /\ pc = "excl_row"
    /\ excl_idx <= Len(excl_rows)
    /\ IF Len(excl_rows[excl_idx]) <= ExclMatchCols[1]
       THEN /\ excl_idx' = excl_idx + 1
            /\ UNCHANGED <<pc, row_idx, matches, examined>>
       ELSE LET qf == QueueFields(row_idx)
                ef == ExclFields(excl_idx)
                f  == ComparePair(qf, ef)
            IN  /\ examined' = examined \cup {<<row_idx, excl_idx>>}
                /\ IF AnyPredicate(f)
                   THEN /\ matches' = Append(matches, [row |-> row_idx, matches |-> f,
                                                       queue_data |-> qf,
                                                       exclusion_data |-> ef])
                        /\ pc' = "queue_row"
                        /\ row_idx' = row_idx + 1
                        /\ UNCHANGED excl_idx
                   ELSE /\ excl_idx' = excl_idx + 1
                        /\ UNCHANGED <<pc, row_idx, matches>>
    /\ UNCHANGED <<toQueueVars, priceVars>>
    /\ UNCHANGED <<normVars, domVars, sheetVars, simVars, extVars, moveVars, mergeVars>>

\* the inner loop ends without a match
EndOfExclusion ==
    /\ pc = "excl_row"
    /\ excl_idx > Len(excl_rows)
    /\ pc' = "queue_row"
    /\ row_idx' = row_idx + 1
    /\ UNCHANGED <<toQueueVars, priceVars>>
    /\ UNCHANGED <<normVars, domVars, sheetVars,
                   simVars, extVars, moveVars, mergeVars, matches, excl_idx, examined>>

NextMatch == StartMatch \/ NextQueueRow \/ ExaminePair \/ EndOfExclusion

SpecMatch == InitMatch /\ [][NextMatch]_vars

(***************************************************************************)
(* Claims about find_matches.                                              *)
(***************************************************************************)
\* the exclusion rows find_matches compares: those long enough for the name
ExclReadable(j) == Len(excl_rows[j]) > ExclMatchCols[1]

PairFlags(r, j) == ComparePair(QueueFields(r), ExclFields(j))

\* the first exclusion row, in sheet order, with a true predicate for the
\* queue row at sheet row r; 0 when there is none
FirstMatching(r) ==
    LET hits == {j \in 1..Len(excl_rows) :
                    ExclReadable(j) /\ AnyPredicate(PairFlags(r, j))}
    IN  IF hits = {} THEN 0 ELSE CHOOSE j \in hits : \A h \in hits : j <= h

\* the queue rows find_matches compares: long enough for the name, name not empty
QueueReadable(r) ==
    /\ Len(queue_rows[r - 1]) > QueueMatchCols[1]
    /\ QueueFields(r).name # <<>>

FlagCount(f) ==
    Cardinality({n \in {"name", "email", "website", "email_domain",
                        "website_domain", "cross_domain1", "cross_domain2"} :
                   Truthy(f[n])})

\* C2: when find_matches returns, a queue row has at most one match result;
\* the result is that of the first exclusion row, in sheet order, with a true
\* predicate; no exclusion row after that one was compared with the queue
\* row; and every queue row with such an exclusion row has its result.
C2_FirstMatchOnly ==
    (pc = "returned" /\ -1 \notin {QueueMatchCols[1], ExclMatchCols[1]}) =>
        /\ \A k \in 1..Len(matches) :
              \E first \in {FirstMatching(matches[k].row)} :
                  /\ Cardinality({n \in 1..Len(matches) :
                                    matches[n].row = matches[k].row}) = 1
                  /\ first # 0
                  /\ matches[k].exclusion_data = ExclFields(first)
                  /\ matches[k].matches = PairFlags(matches[k].row, first)
        /\ \A r \in 2..(Len(queue_rows) + 1) :
              QueueReadable(r) =>
                  \E first \in {FirstMatching(r)} :
                      /\ \A p \in examined : p[1] = r => (first = 0 \/ p[2] <= first)
                      /\ first # 0 => \E k \in 1..Len(matches) : matches[k].row = r

\* find_matches returned a result of the first exclusion row although the
\* second one, never compared, has more true predicates
C2_Witness ==
    /\ pc = "returned"
    /\ \E k \in 1..Len(matches) :
          LET r == matches[k].row
          IN  /\ FirstMatching(r) = 1
              /\ Len(excl_rows) >= 2
              /\ ExclReadable(2)
              /\ FlagCount(PairFlags(r, 2)) > FlagCount(matches[k].matches)
              /\ <<r, 2>> \notin examined

\* C8: in a match result a domain predicate is true only when the two domains
\* it compares are both proprietary.
C8_DomainFlagsNeedProprietary ==
    \A k \in 1..Len(matches) :
        LET m == matches[k]
            q == m.queue_data
            e == m.exclusion_data
        IN  /\ Truthy(m.matches.email_domain) =>
                  /\ is_proprietary_domain(q.email_domain)
                  /\ is_proprietary_domain(e.email_domain)
            /\ Truthy(m.matches.website_domain) =>
                  /\ is_proprietary_domain(q.website_domain)
                  /\ is_proprietary_domain(e.website_domain)
            /\ Truthy(m.matches.cross_domain1) =>
                  /\ is_proprietary_domain(q.email_domain)
                  /\ is_proprietary_domain(e.website_domain)
            /\ Truthy(m.matches.cross_domain2) =>
                  /\ is_proprietary_domain(q.website_domain)
                  /\ is_proprietary_domain(e.email_domain)

GmailDomain == <<"g","m","a","i","l",".","c","o","m">>

\* two rows that share only the email domain gmail.com were compared and
\* find_matches returned no result
C8_Witness ==
    /\ pc = "returned"
    /\ matches = <<>>
    /\ \E p \in examined :
          /\ QueueFields(p[1]).email_domain = GmailDomain
          /\ ExclFields(p[2]).email_domain = GmailDomain

\* C9: in a match result a domain predicate is true only when the two domain
\* strings it compares are equal.
C9_DomainFlagsNeedEqualDomains ==
    \A k \in 1..Len(matches) :
        LET m == matches[k]
            q == m.queue_data
            e == m.exclusion_data
        IN  /\ Truthy(m.matches.email_domain) => q.email_domain = e.email_domain
            /\ Truthy(m.matches.website_domain) => q.website_domain = e.website_domain
            /\ Truthy(m.matches.cross_domain1) => q.email_domain = e.website_domain
            /\ Truthy(m.matches.cross_domain2) => q.website_domain = e.email_domain

C12_UnnamedReferenceNeverMatches ==
    /\ \A k \in 1..Len(matches) : matches[k].exclusion_data.name # <<>>
    /\ \A p \in examined : ExclFields(p[2]).name # <<>>

\* C13: a queue row whose name is empty once trimmed is compared with no
\* exclusion row and has no match result.
C13_UnnamedCandidateNeverMatches ==
    \A r \in 2..(Len(queue_rows) + 1) :
        (/\ QueueMatchCols[1] # -1
         /\ Len(queue_rows[r - 1]) > QueueMatchCols[1]
         /\ Strip(queue_rows[r - 1][QueueMatchCols[1] + 1]) = <<>>)
        => /\ \A k \in 1..Len(matches) : matches[k].row # r
           /\ \A p \in examined : p[1] # r

\* find_matches returned no result for a queue row with a blank name whose
\* website is the website of an exclusion row
C13_Witness ==
    /\ pc = "returned"
    /\ matches = <<>>
    /\ -1 \notin {QueueMatchCols[1], ExclMatchCols[1]}
    /\ \E r \in 2..(Len(queue_rows) + 1), j \in 1..Len(excl_rows) :
          /\ Len(queue_rows[r - 1]) > QueueMatchCols[1]
          /\ queue_rows[r - 1][QueueMatchCols[1] + 1] = <<" ">>
          /\ ExclReadable(j)
          /\ QueueFields(r).website # <<>>
          /\ QueueFields(r).website = ExclFields(j).website

\* C19: every value under 'matches' of a match result is True or False.
C19_FlagsAreBooleans ==
    \A k \in 1..Len(matches) :
        \A n \in {"name", "email", "website", "email_domain",
                  "website_domain", "cross_domain1", "cross_domain2"} :
            matches[k].matches[n] \in {"True", "False"}

(***************************************************************************)
(* Specification SpecNamePair: find_matches on a queue of one row and an   *)
(* exclusion list of one row, both with a name and neither with an email   *)
(* or a website.                                                           *)
(***************************************************************************)
MaxNamePieces == 3   \* a name is made of at most this many pieces

NamePieces ==
    { <<"A","b">>, <<"a","b">>, <<" ">>, <<"L","t","d">>,
      <<"L",".","T",".","D",".">>, <<",">> }

NameInputs == Concats(NamePieces, MaxNamePieces)

InitNamePair ==
    /\ pc = "find_matches"
    /\ queue_headers = StandardHeaders
    /\ excl_headers = StandardHeaders
    /\ \E n \in NameInputs : queue_rows = << <<n, <<>>, <<>> >> >>
    /\ \E n \in NameInputs : excl_rows = << <<n, <<>>, <<>> >> >>
    /\ matches = <<>>
    /\ row_idx = 2
    /\ excl_idx = 1
    /\ examined = {}
    /\ NormIdle /\ DomIdle /\ MergeIdle
    /\ SimIdle /\ ExtIdle /\ MoveIdle
    /\ ToQueueIdle /\ PriceIdle

SpecNamePair == InitNamePair /\ [][NextMatch]_vars

\* the words of a name: its maximal runs of characters other than whitespace
RECURSIVE WordsFrom(_, _, _)
WordsFrom(s, i, word) ==
    IF i > Len(s) THEN (IF word = <<>> THEN <<>> ELSE <<word>>)
    ELSE IF IsSpace(s[i])
         THEN (IF word = <<>> THEN <<>> ELSE <<word>>) \o WordsFrom(s, i + 1, <<>>)
         ELSE WordsFrom(s, i + 1, Append(word, s[i]))

\* a name without what the claim says does not count: the lowercased words,
\* freed of punctuation, that are not legal-entity suffix tokens
NameSkeleton(s) ==
    LET plain(w) == SelectSeq(Lower(w), LAMBDA c : c \in LowerLetters \cup Digits)
        isToken(w) == \E a \in 1..Len(SuffixAlternatives) : SuffixAlternatives[a] = w
    IN  SelectSeq([k \in 1..Len(WordsFrom(s, 1, <<>>)) |-> plain(WordsFrom(s, 1, <<>>)[k])],
                  LAMBDA w : w # <<>> /\ ~isToken(w))

\* C11: two names that differ only by legal-entity suffix tokens, letter case,
\* punctuation or repeated whitespace normalise to the same string, and
\* find_matches, given the two names and no email or website, returns a
\* result with the name flag true.
C11_NameVariantsMatch ==
    LET qn == QueueFields(2).name
        en == ExclFields(1).name
    IN  (pc = "returned" /\ NameSkeleton(qn) # <<>>
                         /\ NameSkeleton(qn) = NameSkeleton(en))
        => /\ normalize_text(qn) = normalize_text(en)
           /\ Len(matches) = 1
           /\ matches[1].matches.name = "True"

(***************************************************************************)
(* Specification SpecMove: process_queue_data of                           *)
(* move_from_queue_to_exclusion_list.py, one action per stage: the new     *)
(* entries are collected, written to the exclusion list, and their rows    *)
(* are deleted from the queue sheet by clear_queue_rows.                   *)
(***************************************************************************)
MaxMoveQueueRows == 2   \* the queue sheet has at most this many rows after its header
MaxMoveExclRows  == 1   \* the exclusion list has at most this many rows after its header
MaxSheetId       == 1   \* the sheetId of the queue sheet is at most this

\* sheet_id = None: no sheet of the spreadsheet has the title of the queue
NoSheet == -1

MoveQueueSampleRows ==
    { << <<"a">>, <<"e">>, <<"w">> >>,
      << <<" ","a"," ">>, <<"e">>, <<"w">> >>,
      << <<"b">>, <<"e">>, <<"w">> >>,
      << <<"a">>, <<"e">> >> }

MoveExclSampleRows ==
    { << <<"a">>, <<"e">>, <<"w">> >>,
      << <<"b">>, <<"e">> >> }

\* the lists a Python set can be iterated as
ListsOf(S) ==
    {q \in SeqsUpTo(S, Cardinality(S)) :
        Len(q) = Cardinality(S) /\ {q[i] : i \in 1..Len(q)} = S}

\* rows_to_clear left in the order of the collecting loop
SortDescending_unsorted(q) == q

\* list.sort(reverse=True)
RECURSIVE SortDescending(_)
SortDescending(q) ==
    IF q = <<>> THEN <<>>
    ELSE LET top  == CHOOSE i \in 1..Len(q) : \A j \in 1..Len(q) : q[i] >= q[j]
             rest == [k \in 1..(Len(q) - 1) |-> IF k < top THEN q[k] ELSE q[k + 1]]
         IN  <<q[top]>> \o SortDescending(rest)

\* deleteDimension of ROWS startIndex row - 1, endIndex row: sheet row `row`
\* is deleted and the rows below it move up
DeleteRow(sheet, row) ==
    IF row < 1 \/ row > Len(sheet) THEN sheet
    ELSE [k \in 1..(Len(sheet) - 1) |-> IF k < row THEN sheet[k] ELSE sheet[k + 1]]

\* the requests of a batchUpdate are applied in their order
RECURSIVE ApplyDeletes(_, _)
ApplyDeletes(sheet, reqs) ==
    IF reqs = <<>> THEN sheet
    ELSE ApplyDeletes(DeleteRow(sheet, Head(reqs)), Tail(reqs))

InitMove ==
    /\ pc = "collect"
    /\ queue_headers \in {StandardHeaders, ShortHeaders}
    /\ queue_rows \in SeqsUpTo(MoveQueueSampleRows, MaxMoveQueueRows)
    /\ excl_headers \in {StandardHeaders, ShortHeaders}
    /\ excl_rows \in SeqsUpTo(MoveExclSampleRows, MaxMoveExclRows)
    /\ sheet_id \in {NoSheet} \cup (0..MaxSheetId)
    /\ api_fault \in {"none", "update", "batchUpdate"}
    /\ excl_written = <<>>
    /\ requests = <<>>
    /\ queue_sheet = <<queue_headers>> \o queue_rows
    /\ MergeIdle
    /\ NormIdle /\ DomIdle /\ MatchIdle /\ SimIdle /\ ExtIdle
    /\ ToQueueIdle /\ PriceIdle

\* lines 157-192: the queue is read and its new entries are collected; the
\* function returns when a column is missing or nothing is new
CollectEntries ==
    /\ pc = "collect"
    /\ IF get_column_indices(queue_headers) = NoColumns
       THEN pc' = "done" /\ UNCHANGED mergeVars
       ELSE LET existing == get_existing_entries(excl_headers, excl_rows)
                got      == CollectNewEntries(queue_headers, queue_rows, existing)
            IN  /\ existing_entries' = existing
                /\ unique_queue_entries' = got.unique
                /\ rows_to_remove' = got.remove
                /\ pc' = IF got.unique = {} THEN "done" ELSE "update"
    /\ UNCHANGED <<toQueueVars, priceVars>>
    /\ UNCHANGED <<normVars, domVars, sheetVars, matchVars, simVars, extVars, moveVars>>

\* UpdateExclusionList with the exception of the update call swallowed:
\* process_queue_data goes on to clear_queue_rows
UpdateExclusionList_swallow_error ==
    /\ pc = "update"
    /\ IF api_fault = "update"
       THEN pc' = "clear" /\ UNCHANGED <<excl_rows, excl_written>>
       ELSE /\ excl_written' \in ListsOf(unique_queue_entries)
            /\ excl_rows' = excl_rows \o excl_written'
            /\ pc' = "clear"
    /\ UNCHANGED <<queue_headers, queue_rows, excl_headers>>
    /\ UNCHANGED <<sheet_id, api_fault, requests, queue_sheet>>
    /\ UNCHANGED <<toQueueVars, priceVars>>
    /\ UNCHANGED <<normVars, domVars, mergeVars, matchVars, simVars, extVars>>

\* lines 194-213: the new entries are written below the last row of the
\* exclusion list, in the order the set is iterated; an exception of the
\* call leaves process_queue_data
UpdateExclusionList ==
    /\ pc = "update"
    /\ IF api_fault = "update"
       THEN pc' = "done" /\ UNCHANGED <<excl_rows, excl_written>>
       ELSE /\ excl_written' \in ListsOf(unique_queue_entries)
            /\ excl_rows' = excl_rows \o excl_written'
            /\ pc' = "clear"
    /\ UNCHANGED <<queue_headers, queue_rows, excl_headers>>
    /\ UNCHANGED <<sheet_id, api_fault, requests, queue_sheet>>
    /\ UNCHANGED <<toQueueVars, priceVars>>
    /\ UNCHANGED <<normVars, domVars, mergeVars, matchVars, simVars, extVars>>

\* clear_queue_rows (lines 107-153), called on line 216
ClearQueueRows ==
    /\ pc = "clear"
    /\ IF rows_to_remove = <<>>
       THEN UNCHANGED <<rows_to_remove, requests, queue_sheet>>
       ELSE /\ rows_to_remove' = SortDescending(rows_to_remove)
            /\ IF sheet_id = NoSheet \/ sheet_id = 0      \* if not sheet_id:
               THEN UNCHANGED <<requests, queue_sheet>>
               ELSE /\ requests' = SortDescending(rows_to_remove)
                    /\ queue_sheet' = IF api_fault = "batchUpdate" THEN queue_sheet
                                      ELSE ApplyDeletes(queue_sheet,
                                                        SortDescending(rows_to_remove))
    /\ pc' = "done"
    /\ UNCHANGED <<existing_entries, unique_queue_entries>>
    /\ UNCHANGED <<sheet_id, api_fault, excl_written>>
    /\ UNCHANGED <<toQueueVars, priceVars>>
    /\ UNCHANGED <<normVars, domVars, sheetVars, matchVars, simVars, extVars>>

NextMove == CollectEntries \/ UpdateExclusionList \/ ClearQueueRows

SpecMove == InitMove /\ [][NextMove]_vars

\* the queue sheet without the rows whose entry was collected
RECURSIVE UnmarkedFrom(_)
UnmarkedFrom(i) ==
    IF i > Len(queue_rows) THEN <<>>
    ELSE (IF Marked(i) THEN <<>> ELSE <<queue_rows[i]>>) \o UnmarkedFrom(i + 1)

\* C20: when process_queue_data has written new entries to the exclusion list
\* and no API call failed, the queue sheet is left without the rows of those
\* entries, for every sheetId of the queue sheet, 0 included.
C20_CopiedRowsRemoved ==
    (pc = "done" /\ excl_written # <<>> /\ api_fault = "none" /\ sheet_id # NoSheet)
    => queue_sheet = <<queue_headers>> \o UnmarkedFrom(1)

\* C21: the deletions clear_queue_rows requests are in strictly descending
\* row order and are those of the collected rows; applied one after another
\* they leave the queue sheet with exactly the rows that were not collected.
C21_DescendingDeletes ==
    (pc = "done" /\ requests # <<>>) =>
        /\ \A k \in 1..(Len(requests) - 1) : requests[k] > requests[k + 1]
        /\ {requests[k] : k \in 1..Len(requests)}
             = {i + 1 : i \in {n \in 1..Len(queue_rows) : Marked(n)}}
        /\ api_fault = "none" => queue_sheet = <<queue_headers>> \o UnmarkedFrom(1)

\* two rows were collected in ascending order and deleted in descending
\* order, and the third row of the sheet is gone as well as the second
C21_Witness ==
    /\ pc = "done"
    /\ api_fault = "none"
    /\ Len(queue_rows) = 2
    /\ requests = <<3, 2>>
    /\ queue_sheet = <<queue_headers>>

\* C22: when a required column is missing from the headers of the queue sheet
\* or of the exclusion list, nothing is written to the exclusion list and no
\* row is removed from the queue.
C22_MissingColumnDoesNothing ==
    (\/ get_column_indices(queue_headers) = NoColumns
     \/ get_column_indices(excl_headers) = NoColumns)
    => /\ excl_written = <<>>
       /\ requests = <<>>
       /\ queue_sheet = <<queue_headers>> \o queue_rows

\* the entries written to the exclusion list
WrittenEntries == {excl_written[k] : k \in 1..Len(excl_written)}

\* C25: the triple of every queue row marked for removal is among the values
\* written to the exclusion list before any deletion is requested, and a run
\* whose update call raises requests no deletion and leaves the queue sheet
\* as it was.
C25_NoDataLoss ==
    /\ (requests # <<>> \/ queue_sheet # <<queue_headers>> \o queue_rows) =>
          /\ excl_written # <<>>
          /\ \A i \in 1..Len(queue_rows) : Marked(i) => QueueEntry(i) \in WrittenEntries
    /\ pc \in {"clear", "done"} /\ excl_written # <<>> =>
          \A i \in 1..Len(queue_rows) : Marked(i) => QueueEntry(i) \in WrittenEntries
    /\ api_fault = "update" =>
          (requests = <<>> /\ queue_sheet = <<queue_headers>> \o queue_rows)

\* two rows with the same triple were deleted from the queue after the triple
\* had been written once
C25_Witness ==
    /\ pc = "done"
    /\ requests = <<3, 2>>
    /\ Len(excl_written) = 1
    /\ queue_rows[1] # queue_rows[2]
    /\ queue_sheet = <<queue_headers>>

(***************************************************************************)
(* Further claims about is_similar and is_proprietary_domain.              *)
(***************************************************************************)
\* C23: at a threshold above 0, is_similar is False when one of the two texts
\* normalises to the empty string.
C23_EmptyNormalisedNeverSimilar ==
    (/\ pc = "compared"
     /\ sim_threshold > 0
     /\ \/ normalize_text(sim_text1) = <<>>
        \/ normalize_text(sim_text2) = <<>>)
    => ~similar

\* the provider base names that are full domains
DottedBases == {b \in COMMON_EMAIL_PROVIDER_BASES : HasChar(b, ".")}

\* C24: a domain equal to a provider base name that contains a dot (me.com,
\* mac.com, qq.com, 126.com, 163.com) is classified as common.
C24_DottedBasesAreCommon ==
    (pc = "classified" /\ domain \in DottedBases) => ~proprietary

(***************************************************************************)
(* move_to_queue.py: the wineries of a source sheet are appended to the    *)
(* queue sheet, one row for each name the queue does not have yet.         *)
(***************************************************************************)
MaxSourceRows  == 3   \* the source sheet has at most this many rows after its header
MaxToQueueRows == 1   \* the queue sheet starts with at most this many rows after its header
MaxRuns        == 2   \* move_to_queue is run at most this many times

\* the fixed columns of the source sheet format
WINERY_COL  == 7
WEBSITE_COL == 8
EMAIL_COL   == 11

\* get_queue_column_indices finds no column: None, None, None, None
NoQueueColumns == <<-1, -1, -1, -1>>

\* the columns of country, name, email and website in the queue sheet
get_queue_column_indices(headers) ==
    LET cols == << HeaderIndex(headers, "Country"),
                   HeaderIndex(headers, "Winery or Supplier Name"),
                   HeaderIndex(headers, "Email"),
                   HeaderIndex(headers, "Website") >>
    IN  IF -1 \in {cols[1], cols[2], cols[3], cols[4]} THEN NoQueueColumns ELSE cols

\* get_existing_entries of move_to_queue.py: the lowercased names of the queue
\* rows; nothing when the sheet is empty or a column is missing
to_queue_get_existing_entries(headers, rows) ==
    LET cols == get_queue_column_indices(headers)
    IN  IF headers = <<>> \/ cols = NoQueueColumns THEN {}
        ELSE { Lower(Cell(rows[i], cols[2])) :
                 i \in {k \in 1..Len(rows) :
                          /\ Len(rows[k]) > cols[2]
                          /\ Cell(rows[k], cols[2]) # <<>>} }

\* max(country_col, name_col, email_col, website_col)
MaxQueueCol(cols) ==
    CHOOSE m \in {cols[1], cols[2], cols[3], cols[4]} :
        \A c \in {cols[1], cols[2], cols[3], cols[4]} : m >= c

\* new_row of lines 171-177: empty cells, then country, name, email and
\* website are assigned in this order
new_row(cols, ctry, winery, email, website) ==
    [k \in 1..(MaxQueueCol(cols) + 1) |->
        IF k = cols[4] + 1 THEN website
        ELSE IF k = cols[3] + 1 THEN email
        ELSE IF k = cols[2] + 1 THEN winery
        ELSE IF k = cols[1] + 1 THEN ctry
        ELSE <<>>]

\* AppendSourceRow without the test against seen_wineries
AppendSourceRow_no_seen(acc, row, cols, existing, ctry) ==
    IF Len(row) <= WINERY_COL THEN acc
    ELSE LET winery  == Cell(row, WINERY_COL)
             website == Cell(row, WEBSITE_COL)
             email   == Cell(row, EMAIL_COL)
         IN  IF winery = <<>> THEN acc
             ELSE IF Lower(winery) \in existing THEN acc
             ELSE [entries |-> Append(acc.entries,
                                      new_row(cols, ctry, winery, email, website)),
                   seen    |-> acc.seen \cup {Lower(winery)}]

\* one iteration of the loop of lines 154-180
AppendSourceRow(acc, row, cols, existing, ctry) ==
    IF Len(row) <= WINERY_COL THEN acc
    ELSE LET winery  == Cell(row, WINERY_COL)
             website == Cell(row, WEBSITE_COL)
             email   == Cell(row, EMAIL_COL)
         IN  IF winery = <<>> THEN acc
             ELSE IF Lower(winery) \in existing \/ Lower(winery) \in acc.seen THEN acc
             ELSE [entries |-> Append(acc.entries,
                                      new_row(cols, ctry, winery, email, website)),
                   seen    |-> acc.seen \cup {Lower(winery)}]

\* the loop of lines 154-180 over source_data[1:]
RECURSIVE CollectSourceFrom(_, _, _, _, _, _)
CollectSourceFrom(rows, i, cols, existing, ctry, acc) ==
    IF i > Len(rows) THEN acc
    ELSE CollectSourceFrom(rows, i + 1, cols, existing, ctry,
                           AppendSourceRow(acc, rows[i], cols, existing, ctry))

NothingCollected == [entries |-> <<>>, seen |-> {}]

\* unique_entries and seen_wineries of process_source_data; nothing when a
\* sheet is empty (lines 127, 141), the source header is too short (line 132)
\* or a queue column is missing (line 147)
CollectSourceEntries(source, headers, rows, ctry) ==
    IF source = <<>> THEN NothingCollected
    ELSE IF Len(source[1]) <= Max(WINERY_COL, Max(WEBSITE_COL, EMAIL_COL))
    THEN NothingCollected
    ELSE IF headers = <<>> THEN NothingCollected
    ELSE LET cols == get_queue_column_indices(headers)
         IN  IF cols = NoQueueColumns THEN NothingCollected
             ELSE CollectSourceFrom(Tail(source), 1, cols,
                                    to_queue_get_existing_entries(headers, rows),
                                    ctry, NothingCollected)

\* a row as values().get returns it: the empty cells at its end are omitted
RECURSIVE TrimRow(_)
TrimRow(row) ==
    IF row # <<>> /\ row[Len(row)] = <<>>
    THEN TrimRow(SubSeq(row, 1, Len(row) - 1))
    ELSE row

(***************************************************************************)
(* Inputs of move_to_queue: a source sheet of sample rows, a queue sheet.  *)
(***************************************************************************)
CountryHeaders == <<"Country", "Winery or Supplier Name", "Email", "Website">>
CountryHeadersSwapped == <<"Winery or Supplier Name", "Website", "Country", "Email">>

\* a source row of n cells with the given winery, website and email cells
SourceRow(n, winery, website, email) ==
    [k \in 1..n |-> IF k = WINERY_COL + 1 THEN winery
                    ELSE IF k = WEBSITE_COL + 1 THEN website
                    ELSE IF k = EMAIL_COL + 1 THEN email
                    ELSE <<>>]

SourceHeaderLong  == [k \in 1..(EMAIL_COL + 1) |-> "h"]
SourceHeaderShort == [k \in 1..EMAIL_COL |-> "h"]

SourceSampleRows ==
    { SourceRow(12, <<"A","b">>, <<"w">>, <<"e">>),
      SourceRow(12, <<"A","B"," ">>, <<"v">>, <<"f">>),
      SourceRow(9,  <<"a","b">>, <<" ","u"," ">>, <<>>),
      SourceRow(8,  <<"C","d">>, <<>>, <<>>),
      SourceRow(12, <<" ">>, <<"w">>, <<"e">>),
      SourceRow(7,  <<>>, <<>>, <<>>) }

ToQueueSampleRows ==
    { << <<"F","R">>, <<" ","a","B">>, <<"e">>, <<"w">> >>,
      << <<"F","R">>, <<"C","D">> >> }

(***************************************************************************)
(* Specification SpecToQueue: process_source_data is run on a source       *)
(* sheet, then run again on the same source sheet and the queue sheet the  *)
(* run before it left.                                                     *)
(***************************************************************************)
InitToQueue ==
    /\ pc = "to_queue"
    /\ source_data \in
         { <<>> } \cup
         { <<h>> \o rows : h \in {SourceHeaderLong, SourceHeaderShort},
                           rows \in SeqsUpTo(SourceSampleRows, MaxSourceRows) }
    /\ country = <<"A","R">>
    /\ queue_headers \in {CountryHeaders, CountryHeadersSwapped, StandardHeaders}
    /\ queue_rows \in SeqsUpTo(ToQueueSampleRows, MaxToQueueRows)
    /\ excl_headers = <<>> /\ excl_rows = <<>>
    /\ queue_before = <<>>
    /\ unique_entries = <<>>
    /\ seen_wineries = {}
    /\ runs = 0
    /\ NormIdle /\ DomIdle /\ MergeIdle /\ MatchIdle
    /\ SimIdle /\ ExtIdle /\ MoveIdle /\ PriceIdle

\* process_source_data: the new rows are collected and written below the last
\* row of the queue sheet (lines 187-199)
ProcessSource ==
    /\ runs < MaxRuns
    /\ \E got \in {CollectSourceEntries(source_data, queue_headers, queue_rows, country)} :
         /\ unique_entries' = got.entries
         /\ seen_wineries' = got.seen
         /\ queue_rows' = queue_rows \o [k \in 1..Len(got.entries) |-> TrimRow(got.entries[k])]
    /\ queue_before' = queue_rows
    /\ runs' = runs + 1
    /\ pc' = "appended"
    /\ UNCHANGED <<source_data, country, queue_headers, excl_headers, excl_rows>>
    /\ UNCHANGED <<normVars, domVars, mergeVars, matchVars, simVars, extVars, moveVars, priceVars>>

NextToQueue == ProcessSource

SpecToQueue == InitToQueue /\ [][NextToQueue]_vars

\* the queue columns, the source rows and the appended names of the last run
ToQueueCols == get_queue_column_indices(queue_headers)
SourceRows == IF source_data = <<>> THEN <<>> ELSE Tail(source_data)
AppendedName(k) == unique_entries[k][ToQueueCols[2] + 1]

\* the first source row whose winery is the given name, compared lowercased
FirstOccurrence(name) ==
    LET at == {i \in 1..Len(SourceRows) :
                 /\ Len(SourceRows[i]) > WINERY_COL
                 /\ Lower(Cell(SourceRows[i], WINERY_COL)) = Lower(name)}
    IN  IF at = {} THEN 0 ELSE CHOOSE i \in at : \A j \in at : i <= j

MaxPriceRows == 1   \* the pricing sheet has at most this many rows after its header
MaxPriceRuns == 2   \* process_sheet is run at most this many times

CURRENCY_RATES == ("R" :> 86) @@ ("$" :> 1660) @@ ("€" :> 1810) @@ ("£" :> 2130)

DigitSeq == <<"0","1","2","3","4","5","6","7","8","9">>

\* int(c) for a digit c
DigitValue(c) == (CHOOSE i \in 1..10 : DigitSeq[i] = c) - 1

\* int(s) for a string of digits
RECURSIVE ToInt(_)
ToInt(s) ==
    IF s = <<>> THEN 0
    ELSE ToInt(SubSeq(s, 1, Len(s) - 1)) * 10 + DigitValue(s[Len(s)])

\* str(n) for n >= 0
RECURSIVE ToDigits(_)
ToDigits(n) ==
    IF n < 10 THEN <<DigitSeq[n + 1]>>
    ELSE ToDigits(n \div 10) \o <<DigitSeq[(n % 10) + 1]>>

RECURSIVE Pow10(_)
Pow10(k) == IF k = 0 THEN 1 ELSE 10 * Pow10(k - 1)

\* sub occurs in s at position i
OccursAt(s, sub, i) ==
    i + Len(sub) - 1 <= Len(s) /\ SubSeq(s, i, i + Len(sub) - 1) = sub

\* sub in s
Contains(s, sub) == \E i \in 1..Len(s) : OccursAt(s, sub, i)

RECURSIVE RemoveAllFrom(_, _, _)
RemoveAllFrom(s, sub, i) ==
    IF i > Len(s) THEN <<>>
    ELSE IF OccursAt(s, sub, i) THEN RemoveAllFrom(s, sub, i + Len(sub))
    ELSE <<s[i]>> \o RemoveAllFrom(s, sub, i + 1)

\* s.replace(sub, "")
RemoveAll(s, sub) == RemoveAllFrom(s, sub, 1)

\* the end of the longest run of characters of S that starts at position i:
\* the position after the run
RunEnd(s, i, S) ==
    CHOOSE j \in i..(Len(s) + 1) :
        /\ \A k \in i..(j - 1) : s[k] \in S
        /\ j = Len(s) + 1 \/ s[j] \notin S

Spaces == {" ", "\t"}

\* r'for\s+(\d+)x' matches at position i
CaseMatchAt(s, i) ==
    /\ OccursAt(s, <<"f","o","r">>, i)
    /\ RunEnd(s, i + 3, Spaces) > i + 3
    /\ LET d == RunEnd(s, i + 3, Spaces)
           x == RunEnd(s, d, Digits)
       IN  x > d /\ x <= Len(s) /\ s[x] = "x"

\* re.search(r'for\s+(\d+)x', s): the position of the match, 0 for None
CaseMatch(s) ==
    LET at == {i \in 1..Len(s) : CaseMatchAt(s, i)}
    IN  IF at = {} THEN 0 ELSE CHOOSE i \in at : \A j \in at : i <= j

\* int(case_match.group(1))
CaseBottles(s) ==
    LET d == RunEnd(s, CaseMatch(s) + 3, Spaces)
    IN  ToInt(SubSeq(s, d, RunEnd(s, d, Digits) - 1))

\* r'for\s+\d+x\s+\d+ml' matches at position i: the position after the match,
\* 0 when it does not match
CaseSizeEnd(s, i) ==
    IF ~CaseMatchAt(s, i) THEN 0
    ELSE LET x == RunEnd(s, RunEnd(s, i + 3, Spaces), Digits)
             e == RunEnd(s, x + 1, Spaces)
             n == RunEnd(s, e, Digits)
         IN  IF e > x + 1 /\ n > e /\ OccursAt(s, <<"m","l">>, n)
             THEN n + 2 ELSE 0

RECURSIVE RemoveCaseSizeFrom(_, _)
RemoveCaseSizeFrom(s, i) ==
    IF i > Len(s) THEN <<>>
    ELSE IF CaseSizeEnd(s, i) # 0 THEN RemoveCaseSizeFrom(s, CaseSizeEnd(s, i))
    ELSE <<s[i]>> \o RemoveCaseSizeFrom(s, i + 1)

\* re.sub(r'for\s+\d+x\s+\d+ml', '', s)
RemoveCaseSize(s) == RemoveCaseSizeFrom(s, 1)

CurrencySymbols == {"R", "$", "€", "£"}
CurrencyCodes ==
    { <<"U","S","D">>, <<"E","U","R">>, <<"G","B","P">>,
      <<"Z","A","R">>, <<"A","U","D">> }

\* currency_mapping of lines 141-143
currency_mapping(code) ==
    CASE code = <<"U","S","D">> -> "$"
      [] code = <<"E","U","R">> -> "€"
      [] code = <<"G","B","P">> -> "£"
      [] code = <<"Z","A","R">> -> "R"
      [] code = <<"A","U","D">> -> "$"

\* the values convert_currency_to_aud returns as they are (line 111)
Unpriced ==
    { <<>>, <<"N","/","A">>,
      <<"N","o","t"," ","a","v","a","i","l","a","b","l","e">>,
      <<"N","o","t"," ","s","p","e","c","i","f","i","e","d">> }

\* f"${amount:.2f}" for an amount of the given number of cents
FormatAud(cents) ==
    <<"$">> \o ToDigits(cents \div 100) \o <<".">>
            \o <<DigitSeq[((cents % 100) \div 10) + 1], DigitSeq[(cents % 10) + 1]>>

\* lines 155-170: the decimal comma, the thousands separators, then every
\* character but digits and the decimal point removed
CleanNumber(s) ==
    LET commas  == {i \in 1..Len(s) : s[i] = ","}
        decimal == /\ commas # {} /\ ~Contains(s, <<".">>)
                   /\ Cardinality(commas) = 1
                   /\ \A i \in commas : Len(s) - i <= 2
        dotted  == IF decimal
                   THEN [i \in 1..Len(s) |-> IF s[i] = "," THEN "." ELSE s[i]]
                   ELSE SelectSeq(s, LAMBDA c : c # ",")
    IN  SelectSeq(dotted, LAMBDA c : c \in Digits \/ c = ".")

\* float(s) succeeds on a string of digits and decimal points
IsFloat(s) ==
    /\ Cardinality({i \in 1..Len(s) : s[i] = "."}) <= 1
    /\ \E i \in 1..Len(s) : s[i] \in Digits

\* lines 172-192 for a string float() accepts: the amount is
\* ToInt(digits) / 10^places; a ZeroDivisionError leaves the function.
\* The amount is rounded to cents from its exact value; the floating-point
\* amount of the script rounds the same way unless the exact value lies
\* halfway between two cents, which no price of PriceInputs reaches
AudOf(s, symbol, wine_name, case_price, bottles_per_case) ==
    LET digits == SelectSeq(s, LAMBDA c : c \in Digits)
        dots   == {i \in 1..Len(s) : s[i] = "."}
        places == IF dots = {} THEN 0 ELSE Len(s) - (CHOOSE i \in dots : TRUE)
        units  == ToInt(digits)
        promo  == /\ wine_name # <<>>
                  /\ Contains(Lower(wine_name), <<"p","r","o","m","o">>)
                  /\ units > 90 * Pow10(places)
        divisor == IF case_price \/ promo THEN bottles_per_case ELSE 1
    IN  IF divisor = 0 THEN <<"ZeroDivisionError">>
        ELSE FormatAud(RoundHalfEven(units * CURRENCY_RATES[symbol],
                                     Pow10(places) * 10 * divisor))

\* lines 132-192: the currency symbol is taken off the string, the number is
\* cleaned and converted
ConvertAmount(s, wine_name, case_price, bottles_per_case) ==
    LET n        == Len(s)
        at_start == n > 0 /\ s[1] \in CurrencySymbols
        code_end == n >= 3 /\ SubSeq(s, n - 2, n) \in CurrencyCodes
        at_end   == n > 0 /\ s[n] \in CurrencySymbols
        currency_symbol ==
            IF at_start THEN s[1]
            ELSE IF code_end THEN currency_mapping(SubSeq(s, n - 2, n))
            ELSE IF at_end THEN s[n]
            ELSE ""
        number   == IF at_start THEN SubSeq(s, 2, n)
                    ELSE IF code_end THEN SubSeq(s, 1, n - 3)
                    ELSE IF at_end THEN SubSeq(s, 1, n - 1)
                    ELSE s
    IN  IF currency_symbol = "" THEN s
        ELSE CHOOSE r \in { IF IsFloat(cleaned)
                            THEN AudOf(cleaned, currency_symbol, wine_name,
                                       case_price, bottles_per_case)
                            ELSE cleaned : cleaned \in {CleanNumber(number)} } : TRUE

\* lines 125-130: a price for a case of a number of bottles
ConvertSized(s, wine_name, case_price) ==
    LET sized == CaseMatch(s) # 0
    IN  CHOOSE r \in { ConvertAmount(unsized, wine_name, case_price \/ sized, bottles)
                       : unsized \in {IF sized THEN RemoveCaseSize(s) ELSE s},
                         bottles \in {IF sized THEN CaseBottles(s) ELSE 12} } : TRUE

\* lines 117-123: a price per case
ConvertCased(s, wine_name) ==
    LET per_case == \/ Contains(s, <<" ","/"," ","C","a","s","e">>)
                    \/ Contains(s, <<" ","p","e","r"," ","c","a","s","e">>)
    IN  CHOOSE r \in { ConvertSized(uncased, wine_name, per_case)
                       : uncased \in
                           { IF per_case
                             THEN RemoveAll(RemoveAll(s, <<" ","/"," ","C","a","s","e">>),
                                            <<" ","p","e","r"," ","c","a","s","e">>)
                             ELSE s } } : TRUE

\* convert_currency_to_aud(price_str, wine_name); wine_name = None is <<>>
convert_currency_to_aud(price_str, wine_name) ==
    IF price_str \in Unpriced THEN price_str
    ELSE CHOOSE r \in { ConvertCased(stripped, wine_name)
                        : stripped \in {Strip(price_str)} } : TRUE

(***************************************************************************)
(* process_pricing_data and process_sheet.                                 *)
(***************************************************************************)
\* product_name of line 249
ProductName(row, idx, wine_name_col) ==
    IF wine_name_col # -1 /\ wine_name_col < Len(row) THEN row[wine_name_col + 1]
    ELSE IF Len(row) > 3 THEN row[4]
    ELSE <<"R","o","w"," ">> \o ToDigits(idx + 1)

\* lines 255-257 and 265-266: the update of a cell whose value changes
AppendUpdate(acc, idx, col, old, new) ==
    IF new = <<"ZeroDivisionError">> THEN [acc EXCEPT !.raised = TRUE]
    ELSE IF new # old
    THEN [acc EXCEPT !.updates = Append(acc.updates, <<idx, col, new>>)]
    ELSE acc

\* lines 252-259 and 262-270 for the cell of column col of row idx of data
ConvertCell(acc, row, idx, col, wine_name_col) ==
    IF acc.raised \/ ~(col < Len(row) /\ row[col + 1] # <<>>) THEN acc
    ELSE CHOOSE r \in
           { AppendUpdate(acc, idx, col, row[col + 1], new)
             : new \in { convert_currency_to_aud(
                             row[col + 1],
                             IF wine_name_col # -1
                             THEN ProductName(row, idx, wine_name_col) ELSE <<>>) } } : TRUE

\* the loop of lines 243-273 from row idx of data on
RECURSIVE PriceRowsFrom(_, _, _, _, _, _)
PriceRowsFrom(data, idx, rrp_col, discount_rrp_col, wine_name_col, acc) ==
    IF idx >= Len(data) THEN acc
    ELSE CHOOSE r \in
           { PriceRowsFrom(data, idx + 1, rrp_col, discount_rrp_col, wine_name_col, next)
             : next \in
                 { IF Len(data[idx + 1]) <= Max(rrp_col, discount_rrp_col) THEN acc
                   ELSE CHOOSE a \in
                          { ConvertCell(rrp, data[idx + 1], idx, discount_rrp_col,
                                        wine_name_col)
                            : rrp \in { ConvertCell(acc, data[idx + 1], idx, rrp_col,
                                                    wine_name_col) } } : TRUE } } : TRUE

\* process_pricing_data(data): the updates, or raised when an exception of
\* convert_currency_to_aud leaves the function
process_pricing_data(data) ==
    LET rrp_col          == HeaderIndex(data[1], "RRP")
        discount_rrp_col == HeaderIndex(data[1], "Discount RRP")
        wine_name_col    == HeaderIndex(data[1], "Wine Name")
    IN  IF rrp_col = -1 \/ discount_rrp_col = -1
        THEN [updates |-> <<>>, raised |-> FALSE]
        ELSE PriceRowsFrom(data, 1, rrp_col, discount_rrp_col, wine_name_col,
                           [updates |-> <<>>, raised |-> FALSE])

\* update_sheet_data: each update sets one cell; the rows are then as
\* values().get returns them
RECURSIVE ApplyUpdates(_, _, _)
ApplyUpdates(data, ups, k) ==
    IF k > Len(ups)
    THEN [r \in 1..Len(data) |-> IF r = 1 THEN data[r] ELSE TrimRow(data[r])]
    ELSE ApplyUpdates([data EXCEPT ![ups[k][1] + 1][ups[k][2] + 1] = ups[k][3]],
                      ups, k + 1)

(***************************************************************************)
(* Inputs of the price conversion: a pricing sheet of sample rows.         *)
(***************************************************************************)
PriceHeaders == {<<"Wine Name", "RRP", "Discount RRP">>,
                 <<"RRP", "Discount RRP">>,
                 <<"Wine Name", "RRP">>}

WineNames == { <<"A","b">>, <<"P","r","o","m","o"," ","A">> }

PriceInputs ==
    { <<"R","1","0","0">>,
      <<"R","1",",","6","2","0"," ","f","o","r"," ","6","x"," ","7","5","0","m","l">>,
      <<"$","1","2","0"," ","/"," ","C","a","s","e">>,
      <<"€","1","0",",","4","0">>,
      <<"£","9","9",".","9","9"," ","p","e","r"," ","c","a","s","e">>,
      <<"1","2",".","4","0"," ","A","U","D">>,
      <<"2","0","U","S","D">>,
      <<"1","0","0","R">>,
      <<"$","0",".","0","0">>,
      <<"$","8",".","6","0">>,
      <<" ","1","5"," ">>,
      <<"N","/","A">>,
      <<"R">>,
      <<"$","1",".","2",".","3">>,
      <<"R","1","0"," ","f","o","r"," ","0","x"," ","7","5","0","m","l">> }

DiscountInputs == { <<"$","5",".","0","0">>, <<"N","/","A">> }

PriceSampleRows ==
    {<<w, p>> : w \in WineNames, p \in PriceInputs}
    \cup {<<w, p, d>> : w \in WineNames, p \in PriceInputs, d \in DiscountInputs}

(***************************************************************************)
(* Specification SpecPrice: process_sheet is run on a pricing sheet, then  *)
(* run again on the sheet it left.                                         *)
(***************************************************************************)
InitPrice ==
    /\ pc = "prices"
    /\ price_data \in
         { <<>> } \cup
         { <<h>> \o rows : h \in PriceHeaders,
                           rows \in SeqsUpTo(PriceSampleRows, MaxPriceRows) }
    /\ updates = <<>>
    /\ price_runs = 0
    /\ NormIdle /\ DomIdle /\ SheetIdle /\ MergeIdle /\ MatchIdle
    /\ SimIdle /\ ExtIdle /\ MoveIdle /\ ToQueueIdle

\* process_sheet: the updates are computed and written; an exception leaves
\* the sheet as it was (lines 361-366)
ProcessSheet ==
    /\ price_runs < MaxPriceRuns
    /\ IF price_data = <<>>
       THEN updates' = <<>> /\ pc' = "updated" /\ UNCHANGED price_data
       ELSE \E got \in {process_pricing_data(price_data)} :
              IF got.raised
              THEN updates' = <<>> /\ pc' = "error" /\ UNCHANGED price_data
              ELSE /\ updates' = got.updates
                   /\ price_data' = ApplyUpdates(price_data, got.updates, 1)
                   /\ pc' = "updated"
    /\ price_runs' = price_runs + 1
    /\ UNCHANGED <<normVars, domVars, sheetVars, mergeVars, matchVars,
                   simVars, extVars, moveVars, toQueueVars>>

NextPrice == ProcessSheet

SpecPrice == InitPrice /\ [][NextPrice]_vars

\* a string of the form '$<amount>' with two decimals
IsAudAmount(v) ==
    /\ Len(v) >= 5
    /\ v[1] = "$"
    /\ v[Len(v) - 2] = "."
    /\ \A i \in (2..Len(v)) \ {Len(v) - 2} : v[i] \in Digits

\* C27: convert_currency_to_aud returns a value it has produced as it is, with
\* or without a wine name, and process_sheet run on the sheet a run before it
\* has converted yields no updates.
C27_ConversionIdempotent ==
    /\ pc = "updated" =>
         \A k \in 1..Len(updates) :
             IsAudAmount(updates[k][3]) =>
                 \A w \in WineNames \cup {<<>>} :
                     convert_currency_to_aud(updates[k][3], w) = updates[k][3]
    /\ (pc = "updated" /\ price_runs >= 2) => updates = <<>>

====
